---- MODULE Spec2Model ----
(***************************************************************************)
(* A model of the Sonos discovery/control program: the library functions   *)
(* of src/sonos/control.py and src/sonos/discovery.py and the request      *)
(* handlers of src/app.py, run against an environment of devices that      *)
(* answer HTTP/SOAP requests.                                              *)
(*                                                                         *)
(* One step of a handler is one await of a library call: the request is    *)
(* sent, the addressed device acts on it, the response (chosen by the      *)
(* environment) is parsed by the library function, and the handler runs    *)
(* on to its next await.                                                   *)
(***************************************************************************)
EXTENDS Integers, Sequences, FiniteSets, TLC

VARIABLES
    devVol,     \* device side: host -> volume the device holds and reports
    devMute,    \* device side: host -> mute flag
    devState,   \* device side: host -> transport state
    devTrack,   \* device side: host -> index of the current track
    req,        \* request slot -> the handler invocation running in it
    nops,       \* number of handler invocations started so far
    faults,     \* number of exchanges that failed so far
    lastGet     \* host -> last value get_volume returned, from a response
                \* that carried the device's volume, since the last
                \* SetVolume sent to that host (history)

devVars == <<devVol, devMute, devState, devTrack>>
appVars == <<req, nops, faults, lastGet>>
vars == <<devVol, devMute, devState, devTrack, req, nops, faults, lastGet>>

----------------------------------------------------------------------------
(* Python's None and optional values: None is the empty tuple, a present   *)
(* value v is <<v>>.                                                       *)
None == << >>
Some(v) == <<v>>
Val(o) == o[1]

Last(s) == s[Len(s)]

----------------------------------------------------------------------------
(* Bounds of the model.                                                    *)

\* handler invocations per behaviour
MaxOps == 1

\* exchanges per behaviour that the environment lets fail
MaxFaults == 1

(* Program constants.                                                      *)
MinVolume == 0
MaxVolume == 100
VolumeStep == 2
HttpOk == 200

\* the hosts of the network
Hosts == {"a", "b", "c"}

\* the volumes the devices hold when the program first meets them, within
\* the protocol's range 0..100
Volumes(a, b, c) == [h \in Hosts |-> CASE h = "a" -> a [] h = "b" -> b [] OTHER -> c]
InitVolumes ==
    {Volumes(20, 40, 60), Volumes(30, 50, 99), Volumes(1, 40, 99),
     Volumes(99, 1, 40), Volumes(100, 0, 51)}

\* the integers a caller may pass to set_volume
SetInputs == {-10, 37, 150}

----------------------------------------------------------------------------
(* Decimal text: str(int) in an f-string, and int(text).                   *)
Digits == <<"0", "1", "2", "3", "4", "5", "6", "7", "8", "9">>

RECURSIVE NatToText(_)
NatToText(n) ==
    IF n < 10 THEN <<Digits[n + 1]>>
    ELSE Append(NatToText(n \div 10), Digits[(n % 10) + 1])

\* f"{volume}" for an int
IntToText(n) == IF n < 0 THEN <<"-">> \o NatToText(-n) ELSE NatToText(n)

IsDigit(c) == \E d \in 1..10 : Digits[d] = c
DigitVal(c) == (CHOOSE d \in 1..10 : Digits[d] = c) - 1

RECURSIVE DigitsToNat(_)
DigitsToNat(s) ==
    IF Len(s) = 0 THEN 0
    ELSE 10 * DigitsToNat(SubSeq(s, 1, Len(s) - 1)) + DigitVal(Last(s))

\* int(text): None stands for the ValueError of a text that is no integer
ParseInt(text) ==
    LET signed == Len(text) > 0 /\ text[1] \in {"-", "+"}
        body == IF signed THEN Tail(text) ELSE text
    IN  IF Len(body) = 0 \/ \E i \in 1..Len(body) : ~IsDigit(body[i])
        THEN None
        ELSE Some(IF signed /\ text[1] = "-" THEN -DigitsToNat(body)
                  ELSE DigitsToNat(body))

\* max(0, min(100, volume))
Min2(x, y) == IF x < y THEN x ELSE y
Max2(x, y) == IF x > y THEN x ELSE y
ClampVolume(v) == Max2(MinVolume, Min2(MaxVolume, v))

----------------------------------------------------------------------------
(* Requests on the wire.  ip is the host of the URL the request is posted  *)
(* to (None when the caller had no host to give), path the control path,   *)
(* action the action of the SOAPACTION header and of the body, arg the     *)
(* text of the one parameter the body carries besides InstanceID/Channel.  *)
RenderingControl == "/MediaRenderer/RenderingControl/Control"
AVTransport == "/MediaRenderer/AVTransport/Control"
ZoneGroupTopology == "/ZoneGroupTopology/Control"
DescriptionPath == "/xml/device_description.xml"

Msg(ip, path, action, arg) ==
    [ip |-> ip, path |-> path, action |-> action, arg |-> arg]

\* (mutant: get_volume posts the body and header of SetVolume)
get_volume_request_sets(ip) == Msg(ip, RenderingControl, "SetVolume", <<"0">>)

get_volume_request(ip) == Msg(ip, RenderingControl, "GetVolume", None)

\* (mutant: set_volume sends the volume as given, unclamped)
set_volume_request_unclamped(ip, volume) ==
    Msg(ip, RenderingControl, "SetVolume", IntToText(volume))

set_volume_request(ip, volume) ==
    Msg(ip, RenderingControl, "SetVolume", IntToText(ClampVolume(volume)))

get_mute_request(ip) == Msg(ip, RenderingControl, "GetMute", None)

set_mute_request(ip, mute) ==
    Msg(ip, RenderingControl, "SetMute", IF mute THEN <<"1">> ELSE <<"0">>)

get_transport_info_request(ip) == Msg(ip, AVTransport, "GetTransportInfo", None)

get_track_info_request(ip) == Msg(ip, AVTransport, "GetPositionInfo", None)

\* Play carries <Speed>1</Speed>, the other three nothing but the InstanceID
playback_request(ip, action) ==
    Msg(ip, AVTransport, action, IF action = "Play" THEN <<"1">> ELSE None)

get_zone_group_state_request(ip) ==
    Msg(ip, ZoneGroupTopology, "GetZoneGroupState", None)

----------------------------------------------------------------------------
(* The environment: what a device does with a request and what comes back. *)
(* The shape of an exchange is the environment's choice:                   *)
(*   exc        the transport fails, the device never sees the request     *)
(*   s500       the device refuses: status 500, a fault in the body        *)
(*   s404       the device refuses: status 404, no fault in the body       *)
(*   fault200   the device refuses: status 200, a fault in the body        *)
(*   ok         the device carries the action out: status 200, no fault    *)
(*   malformed  status 200 and a body that is not well-formed XML; the     *)
(*              device has not carried the action out                      *)
(* and for an action that returns a value, status 200 and a body that has  *)
(*   ok_exact      the result element where the exact-namespace path looks *)
(*   ok_foreign    the result element in some namespace, elsewhere         *)
(*   ok_nons       the result element outside any namespace, elsewhere     *)
(*   ok_missing    well-formed, no result element                          *)
(*   ok_empty      the result element with no text                         *)
(*   ok_garbage    the result element with a text that is no value         *)
(* and for GetVolume, from a device that does not keep to the protocol,    *)
(*   ok_high       the result element with an integer above the range      *)
(*   ok_low        the result element with an integer below the range      *)
(* and, for the lookups taken by themselves, a body with two elements of   *)
(* the result's name, one with the device's value and a decoy:             *)
(*   ok_exact_decoy    the decoy in some namespace, then the result        *)
(*                     element where the exact-namespace path looks        *)
(*   ok_foreign_decoy  the result element in some namespace, then the      *)
(*                     decoy outside any namespace, elsewhere              *)
WriteActions == {"SetVolume", "SetMute", "Play", "Pause", "Next", "Previous"}
ReadActions ==
    {"GetVolume", "GetMute", "GetTransportInfo", "GetPositionInfo",
     "GetZoneGroupState"}

FailShapes == {"exc", "s500", "s404", "fault200"}
WriteShapes == FailShapes \cup {"ok", "malformed"}
ValueShapes == {"ok_exact", "ok_foreign", "ok_nons"}
BadBodyShapes == {"malformed", "ok_missing", "ok_empty", "ok_garbage"}
OddShapes == {"ok_high", "ok_low"}
DecoyShapes == {"ok_exact_decoy", "ok_foreign_decoy"}
ReadShapes == FailShapes \cup ValueShapes \cup BadBodyShapes
\* a description is fetched with GET: no fault envelope, one place to look
GetShapes == {"exc", "s500", "malformed", "ok_missing", "ok_exact"}

PathOf(action) ==
    CASE action \in {"GetVolume", "SetVolume", "GetMute", "SetMute"} -> RenderingControl
      [] action = "GetZoneGroupState" -> ZoneGroupTopology
      [] action = "GET" -> DescriptionPath
      [] OTHER -> AVTransport

\* the shapes the exchange of msg can take: a request with no host, or to a
\* path that does not serve the action, cannot succeed
Shapes(msg) ==
    IF msg.ip = None THEN {"exc"}
    ELSE IF msg.path # PathOf(msg.action) THEN {"exc", "s500"}
    ELSE IF msg.action \in WriteActions THEN WriteShapes
    ELSE IF msg.action = "GetVolume" THEN ReadShapes \cup OddShapes
    ELSE IF msg.action = "GET" THEN GetShapes
    ELSE ReadShapes

\* what the trace of a request keeps of a shape
Class(shape) ==
    IF shape \in ValueShapes \cup {"ok"} THEN "ok"
    ELSE IF shape = "malformed" THEN "malformed"
    ELSE IF shape \in BadBodyShapes THEN "badbody"
    ELSE IF shape \in OddShapes THEN "odd"
    ELSE shape

Garbage == <<"x">>
Decoy == <<"7">>
AboveRange == <<"1", "5", "0">>
BelowRange == <<"-", "3">>

\* a response: exc (the post raised), else status, fault marker in the body,
\* well-formedness, where the result element sits, where a second element
\* of its name sits, and its text
Response(shape, text) ==
    [exc    |-> shape = "exc",
     status |-> CASE shape = "s500" -> 500
                  [] shape = "s404" -> 404
                  [] OTHER -> HttpOk,
     fault  |-> shape \in {"s500", "fault200"},
     wf     |-> shape # "malformed",
     where  |-> CASE shape \in {"ok_exact", "ok_empty", "ok_garbage",
                                 "ok_exact_decoy"} \cup OddShapes
                       -> "exact"
                  [] shape \in {"ok_foreign", "ok_foreign_decoy"} -> "foreign_ns"
                  [] shape = "ok_nons" -> "no_ns"
                  [] OTHER -> "missing",
     decoy  |-> CASE shape = "ok_exact_decoy" -> "foreign_ns_before"
                  [] shape = "ok_foreign_decoy" -> "no_ns_after"
                  [] OTHER -> "none",
     text   |-> CASE shape \in ValueShapes \cup DecoyShapes -> text
                  [] shape = "ok_garbage" -> Garbage
                  [] shape = "ok_high" -> AboveRange
                  [] shape = "ok_low" -> BelowRange
                  [] OTHER -> None]

\* the device's side of an accepted write
DevVolAfter(msg, shape) ==
    IF shape = "ok" /\ msg.action = "SetVolume" /\ ParseInt(msg.arg) # None
    THEN [devVol EXCEPT ![Val(msg.ip)] = Val(ParseInt(msg.arg))]
    ELSE devVol

DevMuteAfter(msg, shape) ==
    IF shape = "ok" /\ msg.action = "SetMute"
    THEN [devMute EXCEPT ![Val(msg.ip)] = (msg.arg = <<"1">>)]
    ELSE devMute


\* the DIDL documents of the tracks of a device's queue, by name; Next
\* after the last track is the first
TrackDocs == <<"M1", "M2", "M3">>
NumTracks == Len(TrackDocs)

\* Play starts a device that is not playing, by way of TRANSITIONING; Pause
\* pauses one that plays or is about to; Next and Previous start the
\* neighbouring track
DevStateAfter(msg, shape) ==
    IF shape # "ok" THEN devState
    ELSE LET h == Val(msg.ip)
         IN  CASE msg.action \in {"Play", "Next", "Previous"} ->
                     [devState EXCEPT ![h] = IF @ = "PLAYING" /\ msg.action = "Play"
                                             THEN "PLAYING" ELSE "TRANSITIONING"]
               [] msg.action = "Pause" ->
                     [devState EXCEPT ![h] = IF @ \in {"PLAYING", "TRANSITIONING"}
                                             THEN "PAUSED_PLAYBACK" ELSE @]
               [] OTHER -> devState

DevTrackAfter(msg, shape) ==
    IF shape # "ok" THEN devTrack
    ELSE LET h == Val(msg.ip)
         IN  CASE msg.action = "Next" ->
                     [devTrack EXCEPT ![h] = IF @ = NumTracks THEN 1 ELSE @ + 1]
               [] msg.action = "Previous" ->
                     [devTrack EXCEPT ![h] = IF @ = 1 THEN NumTracks ELSE @ - 1]
               [] OTHER -> devTrack

\* the text of the result element of a GetVolume / GetMute response
VolumeText(ip) == IntToText(devVol[Val(ip)])
MuteText(ip) == IF devMute[Val(ip)] THEN <<"1">> ELSE <<"0">>

\* the text of CurrentTransportState: a one-token text
StateText(state) == <<state>>
TransportText(ip) == StateText(devState[Val(ip)])

\* the text of TrackMetaData: a one-token text naming the DIDL document of
\* the device's current track
TrackText(ip) == <<TrackDocs[devTrack[Val(ip)]]>>

\* ET.fromstring(title.text): the texts of the title, creator and album
\* elements of the document (None: no such element, Some(""): an element
\* without text); wf FALSE stands for ParseError
Metadata(text) ==
    CASE text = <<"M1">> ->
            [wf |-> TRUE, title |-> Some("Song"), creator |-> Some("Band"),
             album |-> Some("Album")]
      [] text = <<"M2">> ->
            [wf |-> TRUE, title |-> Some("Radio"), creator |-> Some(""),
             album |-> Some("Live")]
      [] text = <<"M3">> ->
            [wf |-> TRUE, title |-> None, creator |-> Some(""), album |-> None]
      [] OTHER -> [wf |-> FALSE, title |-> None, creator |-> None, album |-> None]

----------------------------------------------------------------------------
(* The library's parsing of a response (src/sonos/control.py).             *)

\* root.find('.//u:<Action>Response/<Field>', namespaces)
FindExact(resp) == IF resp.where = "exact" THEN Some(resp.text) ELSE None
\* root.find('.//{*}<Field>'): the first element of the name in document
\* order, in a namespace or in none
FindWildcard(resp) ==
    IF resp.decoy = "foreign_ns_before" THEN Some(Decoy)
    ELSE IF resp.where \in {"exact", "foreign_ns", "no_ns"} THEN Some(resp.text)
    ELSE None
\* root.find('.//<Field>'): the first element of the name that is in no
\* namespace
FindBare(resp) ==
    IF resp.where \in {"exact", "no_ns"} THEN Some(resp.text)
    ELSE IF resp.decoy = "no_ns_after" THEN Some(Decoy)
    ELSE None

\* (mutant: the wildcard lookup is tried before the exact path)
FindField_wildcard_first(resp) ==
    IF FindWildcard(resp) # None THEN FindWildcard(resp)
    ELSE IF FindExact(resp) # None THEN FindExact(resp)
    ELSE FindBare(resp)

\* the three lookups in the order the code tries them
FindField(resp) ==
    IF FindExact(resp) # None THEN FindExact(resp)
    ELSE IF FindWildcard(resp) # None THEN FindWildcard(resp)
    ELSE FindBare(resp)

\* get_volume: int(volume.text) of a 200 response, None on anything else
get_volume(resp) ==
    IF resp.exc THEN None
    ELSE IF resp.status # HttpOk THEN None
    ELSE IF ~resp.wf THEN None
    ELSE LET volume == FindField(resp)
         IN  IF volume = None THEN None
             ELSE IF Val(volume) = None THEN None
             ELSE ParseInt(Val(volume))

\* set_volume: True exactly on status 200
set_volume(resp) == IF resp.exc THEN FALSE ELSE resp.status = HttpOk

\* get_mute: mute.text == '1' of a 200 response, None on anything else
get_mute(resp) ==
    IF resp.exc THEN None
    ELSE IF resp.status # HttpOk THEN None
    ELSE IF ~resp.wf THEN None
    ELSE LET mute == FindField(resp)
         IN  IF mute = None THEN None ELSE Some(Val(mute) = <<"1">>)

\* set_mute: True exactly on status 200
set_mute(resp) == IF resp.exc THEN FALSE ELSE resp.status = HttpOk

\* get_transport_info: state.text of a 200 response, None on anything else
get_transport_info(resp) ==
    IF resp.exc THEN None
    ELSE IF resp.status # HttpOk THEN None
    ELSE IF ~resp.wf THEN None
    ELSE LET state == FindField(resp)
         IN  IF state = None THEN None
             ELSE IF Val(state) = None THEN None
             ELSE Some(Val(state))

\* (mutant: every element found gives a part, with text or without)
TrackParts_unfiltered(md) ==
    (IF md.title # None THEN <<Val(md.title)>> ELSE << >>)
        \o (IF md.creator # None THEN <<Val(md.creator)>> ELSE << >>)
        \o (IF md.album # None THEN <<Val(md.album)>> ELSE << >>)

\* parts: the texts of title, creator and album, in this order, of the
\* elements that are there and have text
TrackParts(md) ==
    (IF md.title # None /\ Val(md.title) # "" THEN <<Val(md.title)>> ELSE << >>)
        \o (IF md.creator # None /\ Val(md.creator) # "" THEN <<Val(md.creator)>>
            ELSE << >>)
        \o (IF md.album # None /\ Val(md.album) # "" THEN <<Val(md.album)>>
            ELSE << >>)

\* sep.join(parts): the parts with sep between them, as a sequence of
\* pieces of text
RECURSIVE Join(_, _)
Join(sep, parts) ==
    IF Len(parts) <= 1 THEN parts
    ELSE <<Head(parts), sep>> \o Join(sep, Tail(parts))

\* " - ".join(parts)
JoinParts(md) == Join(" - ", TrackParts(md))

\* get_track_info: title, creator and album of the TrackMetaData of a 200
\* response, joined; None when there is none of them, or on anything else
get_track_info(resp) ==
    IF resp.exc THEN None
    ELSE IF resp.status # HttpOk THEN None
    ELSE IF ~resp.wf THEN None
    ELSE LET title == FindField(resp)
         IN  IF title = None THEN None
             ELSE IF Val(title) = None THEN None
             ELSE LET metadata == Metadata(Val(title))
                  IN  IF ~metadata.wf THEN None
                      ELSE IF TrackParts(metadata) = << >> THEN None
                      ELSE Some(JoinParts(metadata))

----------------------------------------------------------------------------
(* A handler invocation (src/app.py).  pc is the await the handler stands  *)
(* at; zone_state, members (group_members), i, volumes, mean_volume,       *)
(* new_volume and results are the locals of the volume handlers,           *)
(* current_state, cp_track and result those of control_playback and        *)
(* control_device, sock (the UDP socket: "none" before it is made, then    *)
(* "open", then "closed"), ssdp_end (how the listen loop ended), datagrams *)
(* (the SSDP responses received), devices,                                 *)
(* device_locations, filtered (filtered_devices), new_devices              *)
(* (new_device_tasks), groups_info and volume_tasks those of               *)
(* discover_sonos_topology; parsed is the response shape and the return    *)
(* value of a get_* function called by itself;                             *)
(* reply is the JSON the handler returned; text                            *)
(* is the part of the route's <action> after "set/"; trace is the sequence *)
(* of exchanges it made, each with the class of its shape and what the     *)
(* device served: the integer of an answered GetVolume, the state of an    *)
(* answered GetTransportInfo, the track of an answered GetPositionInfo.    *)
NoReply ==
    [done |-> FALSE, success |-> FALSE, error |-> "", volume |-> None,
     results |-> << >>, state |-> None, track |-> None]

Reply(success, error) ==
    [done |-> TRUE, success |-> success, error |-> error, volume |-> None,
     results |-> << >>, state |-> None, track |-> None]

IdleReq ==
    [handler |-> "idle", ip |-> "", action |-> "", text |-> None, pc |-> "idle",
     zone_state |-> None, members |-> << >>, i |-> 0, volumes |-> << >>, mean_volume |-> 0,
     new_volume |-> 0, results |-> << >>, current_state |-> None, cp_track |-> None,
     slept |-> FALSE,
     sock |-> "none", ssdp_end |-> "",
     datagrams |-> << >>, devices |-> << >>, device_locations |-> {},
     filtered |-> << >>, new_devices |-> << >>, groups_info |-> << >>,
     volume_tasks |-> << >>, finished |-> << >>,
     parsed |-> [shape |-> "", value |-> None],
     result |-> [kind |-> "absent", state |-> None, track |-> None],
     reply |-> NoReply, trace |-> << >>]

NewReq(handler, ip, action, text, pc) ==
    [IdleReq EXCEPT !.handler = handler, !.ip = ip, !.action = action,
                    !.text = text, !.pc = pc]

TraceEntry(msg, shape) ==
    [ip |-> msg.ip, action |-> msg.action, arg |-> msg.arg,
     class |-> Class(shape),
     val |-> CASE msg.action = "GetVolume" /\ shape \in ValueShapes
                    -> devVol[Val(msg.ip)]
               [] msg.action = "GetVolume" /\ shape = "ok_high"
                    -> Val(ParseInt(AboveRange))
               [] msg.action = "GetVolume" /\ shape = "ok_low"
                    -> Val(ParseInt(BelowRange))
               [] OTHER -> 0,
     state |-> IF msg.action = "GetTransportInfo" /\ shape \in ValueShapes
               THEN devState[Val(msg.ip)] ELSE "",
     track |-> IF msg.action = "GetPositionInfo" /\ shape \in ValueShapes
               THEN devTrack[Val(msg.ip)] ELSE 0]

\* the request after one more exchange, at pc, with reply
Step(rq, msg, shape, pc, reply) ==
    [rq EXCEPT !.trace = Append(@, TraceEntry(msg, shape)), !.pc = pc,
               !.reply = reply]

\* a shape the environment has to pay for: the exchange fails, or answers
\* with a body of no use.  A request with no host fails of itself.
IsFault(msg, shape) ==
    msg.ip # None /\ shape \in FailShapes \cup BadBodyShapes \cup OddShapes

\* the device acts on msg
Exchange(msg, shape) ==
    /\ shape \in Shapes(msg)
    /\ IsFault(msg, shape) => faults < MaxFaults
    /\ faults' = IF IsFault(msg, shape) THEN faults + 1 ELSE faults
    /\ devVol' = DevVolAfter(msg, shape)
    /\ devMute' = DevMuteAfter(msg, shape)
    /\ devState' = DevStateAfter(msg, shape)
    /\ devTrack' = DevTrackAfter(msg, shape)

\* the history of get_volume results per host, kept for the responses that
\* carried the device's volume
NoteGet(ip, volume, shape) ==
    IF ip # None /\ volume # None /\ shape \in ValueShapes
    THEN [lastGet EXCEPT ![Val(ip)] = volume]
    ELSE lastGet
NoteSent(msg) ==
    IF msg.ip # None /\ msg.action = "SetVolume"
    THEN [lastGet EXCEPT ![Val(msg.ip)] = None]
    ELSE lastGet

Free(r) == req[r].pc \in {"idle", "done"}

----------------------------------------------------------------------------
(* control_volume(ip, action), src/app.py 69-113.                          *)

\* the <action> segments the route is exercised with; text is what follows
\* "set/"
SetTexts == {IntToText(v) : v \in SetInputs} \cup {Garbage}
VolumeRequests ==
    [name : {"get", "mute", "unmute", "up", "down", "other"}, text : {None}]
        \cup [name : {"set"}, text : SetTexts]

\* (mutant: the step is added and the clamp left to set_volume)
AdjustedVolume_unclamped(current_volume, action) ==
    current_volume + (IF action = "up" THEN VolumeStep ELSE -VolumeStep)

\* new_volume = max(0, min(100, current_volume + (2 if action == "up" else -2)))
AdjustedVolume(current_volume, action) ==
    ClampVolume(current_volume + (IF action = "up" THEN VolumeStep ELSE -VolumeStep))

\* the handler up to its first await
control_volume_entry(ip, a) ==
    LET rq == NewReq("control_volume", ip, a.name, a.text, "done")
    IN  CASE a.name = "get" -> [rq EXCEPT !.pc = "cv_get"]
          [] a.name \in {"mute", "unmute"} -> [rq EXCEPT !.pc = "cv_mute"]
          [] a.name = "set" ->
                IF ParseInt(a.text) = None
                THEN [rq EXCEPT !.reply = Reply(FALSE, "Invalid volume value")]
                ELSE [rq EXCEPT !.pc = "cv_set",
                                !.new_volume = Val(ParseInt(a.text))]
          [] a.name \in {"up", "down"} -> [rq EXCEPT !.pc = "cv_adj_get"]
          [] OTHER -> [rq EXCEPT !.reply = Reply(FALSE, "Failed to control volume")]

BeginVolume(r) ==
    /\ Free(r)
    /\ nops < MaxOps
    /\ \E ip \in Hosts, a \in VolumeRequests :
          req' = [req EXCEPT ![r] = control_volume_entry(ip, a)]
    /\ nops' = nops + 1
    /\ UNCHANGED <<devVars, faults, lastGet>>

\* action == "get": volume = await get_volume(session, ip)
CvGet(r) ==
    /\ req[r].pc = "cv_get"
    /\ LET msg == get_volume_request(Some(req[r].ip))
       IN  \E shape \in Shapes(msg) :
             LET volume == get_volume(Response(shape, VolumeText(msg.ip)))
                 reply == IF volume # None
                          THEN [Reply(TRUE, "") EXCEPT !.volume = volume]
                          ELSE Reply(FALSE, "Could not get volume")
             IN  /\ Exchange(msg, shape)
                 /\ req' = [req EXCEPT ![r] = Step(@, msg, shape, "done", reply)]
                 /\ lastGet' = NoteGet(msg.ip, volume, shape)
    /\ UNCHANGED nops

\* action == "mute" / "unmute": success = await set_mute(session, ip, flag)
CvMute(r) ==
    /\ req[r].pc = "cv_mute"
    /\ LET msg == set_mute_request(Some(req[r].ip), req[r].action = "mute")
       IN  \E shape \in Shapes(msg) :
             LET success == set_mute(Response(shape, None))
                 reply == IF success THEN Reply(TRUE, "")
                          ELSE Reply(FALSE, IF req[r].action = "mute"
                                            THEN "Failed to mute"
                                            ELSE "Failed to unmute")
             IN  /\ Exchange(msg, shape)
                 /\ req' = [req EXCEPT ![r] = Step(@, msg, shape, "done", reply)]
    /\ UNCHANGED <<nops, lastGet>>

\* action "set/<v>": success = await set_volume(session, ip, volume)
CvSet(r) ==
    /\ req[r].pc = "cv_set"
    /\ LET msg == set_volume_request(Some(req[r].ip), req[r].new_volume)
       IN  \E shape \in Shapes(msg) :
             LET success == set_volume(Response(shape, None))
             IN  /\ Exchange(msg, shape)
                 /\ req' = [req EXCEPT ![r] =
                       IF success THEN Step(@, msg, shape, "cv_set_read", NoReply)
                       ELSE Step(@, msg, shape, "done",
                                 Reply(FALSE, "Failed to set volume"))]
                 /\ lastGet' = NoteSent(msg)
    /\ UNCHANGED nops

\* ... new_volume = await get_volume(session, ip); the reply carries it
CvSetRead(r) ==
    /\ req[r].pc = "cv_set_read"
    /\ LET msg == get_volume_request(Some(req[r].ip))
       IN  \E shape \in Shapes(msg) :
             LET new_volume == get_volume(Response(shape, VolumeText(msg.ip)))
                 reply == [Reply(TRUE, "") EXCEPT !.volume = new_volume]
             IN  /\ Exchange(msg, shape)
                 /\ req' = [req EXCEPT ![r] = Step(@, msg, shape, "done", reply)]
                 /\ lastGet' = NoteGet(msg.ip, new_volume, shape)
    /\ UNCHANGED nops

\* action "up" / "down": current_volume = await get_volume(session, ip)
CvAdjGet(r) ==
    /\ req[r].pc = "cv_adj_get"
    /\ LET msg == get_volume_request(Some(req[r].ip))
       IN  \E shape \in Shapes(msg) :
             LET current_volume == get_volume(Response(shape, VolumeText(msg.ip)))
             IN  /\ Exchange(msg, shape)
                 /\ req' = [req EXCEPT ![r] =
                       IF current_volume # None
                       THEN [Step(@, msg, shape, "cv_adj_set", NoReply)
                               EXCEPT !.new_volume =
                                   AdjustedVolume(Val(current_volume), req[r].action)]
                       ELSE Step(@, msg, shape, "done",
                                 Reply(FALSE, "Could not get current volume"))]
                 /\ lastGet' = NoteGet(msg.ip, current_volume, shape)
    /\ UNCHANGED nops

\* ... success = await set_volume(session, ip, new_volume)
CvAdjSet(r) ==
    /\ req[r].pc = "cv_adj_set"
    /\ LET msg == set_volume_request(Some(req[r].ip), req[r].new_volume)
       IN  \E shape \in Shapes(msg) :
             LET success == set_volume(Response(shape, None))
                 reply == IF success
                          THEN [Reply(TRUE, "") EXCEPT !.volume = Some(req[r].new_volume)]
                          ELSE Reply(FALSE, "Failed to adjust volume")
             IN  /\ Exchange(msg, shape)
                 /\ req' = [req EXCEPT ![r] = Step(@, msg, shape, "done", reply)]
                 /\ lastGet' = NoteSent(msg)
    /\ UNCHANGED nops

control_volume(r) ==
    \/ BeginVolume(r)
    \/ CvGet(r)
    \/ CvMute(r)
    \/ CvSet(r)
    \/ CvSetRead(r)
    \/ CvAdjGet(r)
    \/ CvAdjSet(r)

----------------------------------------------------------------------------
(* Zone-group topology documents.  A document's text is a one-token text   *)
(* naming it; its parse is a sequence of ZoneGroup elements, each with its ID *)
(* and Coordinator attributes and its ZoneGroupMember elements, each with  *)
(* its UUID, Location, Invisible and ZoneName attributes (None: absent).   *)
LocA == "http://a:1400/xml/device_description.xml"
LocB == "http://b:1400/xml/device_description.xml"
LocC == "http://c:1400/xml/device_description.xml"
\* a device on the network that is no Sonos player
LocP == "http://p:1400/xml/device_description.xml"

\* urlparse(location).hostname
hostname(location) ==
    CASE location = Some(LocA) -> Some("a")
      [] location = Some(LocB) -> Some("b")
      [] location = Some(LocC) -> Some("c")
      [] location = Some(LocP) -> Some("p")
      [] OTHER -> None

Member(uuid, location, invisible, zone_name) ==
    [uuid |-> uuid, location |-> location, invisible |-> invisible,
     zone_name |-> zone_name]
MemA == Member("uA", Some(LocA), None, Some("Kitchen"))
MemB == Member("uB", Some(LocB), Some("0"), Some("bath"))
MemC == Member("uC", Some(LocC), None, Some("Attic"))
MemCHidden == Member("uC", Some(LocC), Some("1"), Some("Attic"))
MemCTwin == Member("uC2", Some(LocC), None, Some("Attic"))
MemNoLoc == Member("uN", None, None, None)

Group(id, coordinator, members) ==
    [id |-> id, coordinator |-> coordinator, members |-> members]

\* ET.fromstring(zone_state): wf FALSE stands for ParseError
Topology(text) ==
    CASE text = <<"T1">> ->
            [wf |-> TRUE,
             groups |-> <<Group("G1", Some("uA"), <<MemA, MemB, MemCHidden>>)>>]
      [] text = <<"T2">> ->
            [wf |-> TRUE,
             groups |-> <<Group("G1", Some("uA"), <<MemA>>),
                          Group("G2", Some("uB"), <<MemB>>)>>]
      [] text = <<"T3">> ->
            [wf |-> TRUE,
             groups |-> <<Group("G1", None, <<MemA, MemNoLoc>>),
                          Group("G2", Some("uB"), <<MemB, MemC>>)>>]
      [] text = <<"T4">> ->
            [wf |-> TRUE,
             groups |-> <<Group("G1", Some("uA"), <<MemA, MemB, MemC>>)>>]
      [] text = <<"T5">> ->
            [wf |-> TRUE,
             groups |-> <<Group("G1", Some("uA"), <<MemA, MemC>>),
                          Group("G2", Some("uB"), <<MemB, MemCTwin>>)>>]
      [] OTHER -> [wf |-> FALSE, groups |-> << >>]

\* the documents a device may serve as its ZoneGroupState
TopologyTexts == {"T1", "T2", "T3", "T4", "T5"}

\* get_zone_group_state: state.text of a 200 response when the bare lookup
\* finds a non-empty ZoneGroupState, None on anything else
get_zone_group_state(resp) ==
    IF resp.exc THEN None
    ELSE IF resp.status # HttpOk THEN None
    ELSE IF ~resp.wf THEN None
    ELSE LET state == FindBare(resp)
         IN  IF state # None /\ Val(state) # None THEN Val(state) ELSE None

\* the text of a ZoneGroupState element: Garbage parses as no document
ZoneStateText(name) == <<name>>

----------------------------------------------------------------------------
(* control_group_volume(ip, action), src/app.py 115-187.                   *)
GroupRequests == {"mean", "up", "down", "other"}

\* (mutant: only Invisible="true" hides a member)
IsVisible_any(m) == m.invisible # Some("true")

\* m.get('Invisible', '0') == '0'
IsVisible(m) == (IF m.invisible = None THEN "0" ELSE Val(m.invisible)) = "0"
\* (mutant: the members are taken as they come, invisible ones included)
VisibleMembers_all(group) == group.members

\* [m for m in group.findall(".//ZoneGroupMember") if m.get('Invisible', '0') == '0']
VisibleMembers(group) == SelectSeq(group.members, IsVisible)

\* some member of the group has a Location whose host is ip
HasHost(group, ip) ==
    \E k \in 1..Len(group.members) :
        /\ group.members[k].location # None
        /\ hostname(group.members[k].location) = Some(ip)

\* the loop over the groups: group_members after it, starting from acc.  A
\* group that holds ip sets group_members; the loop stops there only when
\* that group's Coordinator attribute is non-empty.
RECURSIVE find_group_members(_, _, _)
find_group_members(groups, ip, acc) ==
    IF groups = << >> THEN acc
    ELSE LET group == Head(groups)
         IN  IF HasHost(group, ip)
             THEN IF group.coordinator # None /\ Val(group.coordinator) # ""
                  THEN VisibleMembers(group)
                  ELSE find_group_members(Tail(groups), ip, VisibleMembers(group))
             ELSE find_group_members(Tail(groups), ip, acc)

RECURSIVE SumSeq(_)
SumSeq(s) == IF s = << >> THEN 0 ELSE Head(s) + SumSeq(Tail(s))

\* (mutant: the mean is truncated, as by integer division)
round_mean_floor(volumes) == SumSeq(volumes) \div Len(volumes)

\* round(mean(volumes)): the exact mean, rounded to the nearest integer,
\* a tie to the even one
round_mean(volumes) ==
    LET n == Len(volumes)
        total == SumSeq(volumes)
        q == total \div n
        rem == total % n
    IN  IF 2 * rem < n THEN q
        ELSE IF 2 * rem > n THEN q + 1
        ELSE IF q % 2 = 0 THEN q ELSE q + 1

MemberIp(rq) == hostname(rq.members[rq.i].location)

\* if volume is not None: volumes.append(volume)
collect_volume(volumes, volume) ==
    IF volume # None THEN Append(volumes, Val(volume)) ELSE volumes

\* (mutant: the member is listed whatever set_volume returned)
collect_result_always(results, success, ip, volume) ==
    Append(results, [ip |-> ip, volume |-> volume])

\* if success: results.append({"ip": member_ip, "volume": volume})
collect_result(results, success, ip, volume) ==
    IF success THEN Append(results, [ip |-> ip, volume |-> volume]) ELSE results

BeginGroup(r) ==
    /\ Free(r)
    /\ nops < MaxOps
    /\ \E ip \in Hosts, a \in GroupRequests :
          req' = [req EXCEPT ![r] =
                    NewReq("control_group_volume", ip, a, None, "gv_cur")]
    /\ nops' = nops + 1
    /\ UNCHANGED <<devVars, faults, lastGet>>

\* current_volume = await get_volume(session, ip)
GvCur(r) ==
    /\ req[r].pc = "gv_cur"
    /\ LET msg == get_volume_request(Some(req[r].ip))
       IN  \E shape \in Shapes(msg) :
             LET current_volume == get_volume(Response(shape, VolumeText(msg.ip)))
             IN  /\ Exchange(msg, shape)
                 /\ req' = [req EXCEPT ![r] =
                       IF current_volume = None
                       THEN Step(@, msg, shape, "done",
                                 Reply(FALSE, "Could not get coordinator volume"))
                       ELSE Step(@, msg, shape, "gv_zone", NoReply)]
                 /\ lastGet' = NoteGet(msg.ip, current_volume, shape)
    /\ UNCHANGED nops

\* the handler from the zone state to its next await
group_after_zone_state(rq, zone_state) ==
    IF zone_state = None
    THEN [rq EXCEPT !.pc = "done",
                    !.reply = Reply(FALSE, "Could not get group state")]
    ELSE LET state_root == Topology(zone_state)
             group_members == find_group_members(state_root.groups, rq.ip, << >>)
             got == [rq EXCEPT !.zone_state = zone_state]
         IN  IF ~state_root.wf
             THEN [got EXCEPT !.pc = "done",
                              !.reply = Reply(FALSE, "Failed to parse group state")]
             ELSE IF group_members = << >>
             THEN [got EXCEPT !.pc = "done",
                              !.reply = Reply(FALSE, "No group members found")]
             ELSE IF rq.action = "mean"
             THEN [got EXCEPT !.pc = "gv_mean_get", !.members = group_members,
                              !.i = 1]
             ELSE IF rq.action \in {"up", "down"}
             THEN [got EXCEPT !.pc = "gv_adj_get", !.members = group_members,
                              !.i = 1]
             ELSE [got EXCEPT !.pc = "done", !.members = group_members,
                              !.reply = Reply(FALSE, "Failed to control group volume")]

\* zone_state = await get_zone_group_state(session, ip), then the group of ip
GvZone(r) ==
    /\ req[r].pc = "gv_zone"
    /\ LET msg == get_zone_group_state_request(Some(req[r].ip))
       IN  \E shape \in Shapes(msg), text \in TopologyTexts :
             LET resp == Response(shape, ZoneStateText(text))
                 zone_state == get_zone_group_state(resp)
             IN  /\ Exchange(msg, shape)
                 /\ req' = [req EXCEPT ![r] =
                       group_after_zone_state(
                           Step(@, msg, shape, "gv_zone", NoReply), zone_state)]
    /\ UNCHANGED <<nops, lastGet>>

\* the handler after the last fetch of "mean"
mean_after_fetches(rq) ==
    IF rq.volumes # << >>
    THEN [rq EXCEPT !.pc = "gv_mean_set", !.i = 1,
                    !.mean_volume = round_mean(rq.volumes)]
    ELSE [rq EXCEPT !.pc = "done",
                    !.reply = Reply(FALSE, "Failed to control group volume")]

\* "mean", first loop: volume = await get_volume(session, member_ip)
GvMeanGet(r) ==
    /\ req[r].pc = "gv_mean_get"
    /\ LET msg == get_volume_request(MemberIp(req[r]))
       IN  \E shape \in Shapes(msg) :
             LET volume == get_volume(Response(shape,
                               IF msg.ip = None THEN None ELSE VolumeText(msg.ip)))
                 fetched == [Step(req[r], msg, shape, "gv_mean_get", NoReply)
                               EXCEPT !.volumes = collect_volume(@, volume),
                                      !.i = @ + 1]
             IN  /\ Exchange(msg, shape)
                 /\ req' = [req EXCEPT ![r] =
                       IF fetched.i > Len(fetched.members)
                       THEN mean_after_fetches(fetched) ELSE fetched]
                 /\ lastGet' = NoteGet(msg.ip, volume, shape)
    /\ UNCHANGED nops

\* "mean", second loop: success = await set_volume(session, member_ip, mean_volume)
GvMeanSet(r) ==
    /\ req[r].pc = "gv_mean_set"
    /\ LET msg == set_volume_request(MemberIp(req[r]), req[r].mean_volume)
       IN  \E shape \in Shapes(msg) :
             LET success == set_volume(Response(shape, None))
                 sent == [Step(req[r], msg, shape, "gv_mean_set", NoReply)
                            EXCEPT !.results =
                                       collect_result(@, success, MemberIp(req[r]),
                                                      req[r].mean_volume),
                                   !.i = @ + 1]
             IN  /\ Exchange(msg, shape)
                 /\ req' = [req EXCEPT ![r] =
                       IF sent.i > Len(sent.members)
                       THEN [sent EXCEPT !.pc = "done",
                                         !.reply = [Reply(TRUE, "") EXCEPT
                                                      !.results = sent.results]]
                       ELSE sent]
                 /\ lastGet' = NoteSent(msg)
    /\ UNCHANGED nops

\* the "up"/"down" loop moves on to its next member, or returns
adj_next_member(rq) ==
    LET nxt == [rq EXCEPT !.i = @ + 1, !.pc = "gv_adj_get"]
    IN  IF nxt.i > Len(nxt.members)
        THEN [nxt EXCEPT !.pc = "done",
                         !.reply = [Reply(TRUE, "") EXCEPT !.results = nxt.results]]
        ELSE nxt

\* "up"/"down": current_volume = await get_volume(session, member_ip)
GvAdjGet(r) ==
    /\ req[r].pc = "gv_adj_get"
    /\ LET msg == get_volume_request(MemberIp(req[r]))
       IN  \E shape \in Shapes(msg) :
             LET current_volume == get_volume(Response(shape,
                               IF msg.ip = None THEN None ELSE VolumeText(msg.ip)))
                 rq == Step(req[r], msg, shape, "gv_adj_get", NoReply)
             IN  /\ Exchange(msg, shape)
                 /\ req' = [req EXCEPT ![r] =
                       IF current_volume # None
                       THEN [rq EXCEPT !.pc = "gv_adj_set",
                                       !.new_volume =
                                           AdjustedVolume(Val(current_volume),
                                                          rq.action)]
                       ELSE adj_next_member(rq)]
                 /\ lastGet' = NoteGet(msg.ip, current_volume, shape)
    /\ UNCHANGED nops

\* ... success = await set_volume(session, member_ip, new_volume)
GvAdjSet(r) ==
    /\ req[r].pc = "gv_adj_set"
    /\ LET msg == set_volume_request(MemberIp(req[r]), req[r].new_volume)
       IN  \E shape \in Shapes(msg) :
             LET success == set_volume(Response(shape, None))
                 rq == [Step(req[r], msg, shape, "gv_adj_set", NoReply)
                          EXCEPT !.results =
                                     collect_result(@, success, MemberIp(req[r]),
                                                    req[r].new_volume)]
             IN  /\ Exchange(msg, shape)
                 /\ req' = [req EXCEPT ![r] = adj_next_member(rq)]
                 /\ lastGet' = NoteSent(msg)
    /\ UNCHANGED nops

control_group_volume(r) ==
    \/ BeginGroup(r)
    \/ GvCur(r)
    \/ GvZone(r)
    \/ GvMeanGet(r)
    \/ GvMeanSet(r)
    \/ GvAdjGet(r)
    \/ GvAdjSet(r)

----------------------------------------------------------------------------
(* control_device(ip, action), src/app.py 37-67, with control_playback,    *)
(* src/sonos/control.py 278-356, run inside it.                            *)
DeviceRequests ==
    {"GetState", "GetTrackInfo", "Play", "Pause", "Next", "Previous", "other"}
PlaybackActions == {"Play", "Pause", "Next", "Previous"}

\* what control_playback returns: None (absent), new_state (single) or
\* the tuple (new_state, track) (pair)
NoResult == [kind |-> "absent", state |-> None, track |-> None]

\* (mutant: the state read before the command is the one returned)
playback_result_stale(action, current_state, new_state, track) ==
    IF action \in {"Next", "Previous"}
    THEN [kind |-> "pair", state |-> current_state, track |-> track]
    ELSE [kind |-> "single", state |-> current_state, track |-> None]

\* return new_state, track / return new_state
playback_result(action, current_state, new_state, track) ==
    IF action \in {"Next", "Previous"}
    THEN [kind |-> "pair", state |-> new_state, track |-> track]
    ELSE [kind |-> "single", state |-> new_state, track |-> None]

\* if result: a tuple of two is true, a state is true when it is a
\* non-empty string
Truthy(result) ==
    \/ result.kind = "pair"
    \/ result.kind = "single" /\ result.state # None

\* (mutant: the track is fetched whatever the state)
wants_track_always(new_state) == new_state = new_state

\* if new_state == "PLAYING"
wants_track(new_state) == new_state = Some(StateText("PLAYING"))

\* f"Could not {action}"
CouldNot(action) ==
    CASE action = "Play" -> "Could not Play"
      [] action = "Pause" -> "Could not Pause"
      [] action = "Next" -> "Could not Next"
      [] OTHER -> "Could not Previous"

\* control_device from the return of control_playback to its next await
device_after_playback(rq, result) ==
    LET got == [rq EXCEPT !.result = result]
    IN  IF ~Truthy(result)
        THEN [got EXCEPT !.pc = "done", !.reply = Reply(FALSE, CouldNot(rq.action))]
        ELSE IF rq.action \in {"Next", "Previous"}
        THEN [got EXCEPT !.pc = "done",
                         !.reply = [Reply(TRUE, "") EXCEPT !.state = result.state,
                                                           !.track = result.track]]
        ELSE IF wants_track(result.state)
        THEN [got EXCEPT !.pc = "cd_track"]
        ELSE [got EXCEPT !.pc = "done",
                         !.reply = [Reply(TRUE, "") EXCEPT !.state = result.state]]

control_device_entry(ip, action) ==
    LET rq == NewReq("control_device", ip, action, None, "done")
    IN  CASE action = "GetState" -> [rq EXCEPT !.pc = "cd_state"]
          [] action = "GetTrackInfo" -> [rq EXCEPT !.pc = "cd_gettrack"]
          [] action \in PlaybackActions -> [rq EXCEPT !.pc = "cp_pre"]
          [] OTHER -> [rq EXCEPT !.reply = Reply(FALSE, "Internal Server Error")]

BeginDevice(r) ==
    /\ Free(r)
    /\ nops < MaxOps
    /\ \E ip \in Hosts, action \in DeviceRequests :
          req' = [req EXCEPT ![r] = control_device_entry(ip, action)]
    /\ nops' = nops + 1
    /\ UNCHANGED <<devVars, faults, lastGet>>

\* action == "GetState": state = await get_transport_info(session, ip)
CdState(r) ==
    /\ req[r].pc = "cd_state"
    /\ LET msg == get_transport_info_request(Some(req[r].ip))
       IN  \E shape \in Shapes(msg) :
             LET state == get_transport_info(Response(shape, TransportText(msg.ip)))
                 reply == IF state # None
                          THEN [Reply(TRUE, "") EXCEPT !.state = state]
                          ELSE Reply(FALSE, "Could not get device state")
             IN  /\ Exchange(msg, shape)
                 /\ req' = [req EXCEPT ![r] = Step(@, msg, shape, "done", reply)]
    /\ UNCHANGED <<nops, lastGet>>

\* action == "GetTrackInfo": track = await get_track_info(session, ip)
CdGetTrack(r) ==
    /\ req[r].pc = "cd_gettrack"
    /\ LET msg == get_track_info_request(Some(req[r].ip))
       IN  \E shape \in Shapes(msg) :
             LET track == get_track_info(Response(shape, TrackText(msg.ip)))
                 reply == IF track # None
                          THEN [Reply(TRUE, "") EXCEPT !.track = track]
                          ELSE Reply(FALSE, "Could not get track info")
             IN  /\ Exchange(msg, shape)
                 /\ req' = [req EXCEPT ![r] = Step(@, msg, shape, "done", reply)]
    /\ UNCHANGED <<nops, lastGet>>

\* control_playback: current_state = await get_transport_info(session, ip)
CpPre(r) ==
    /\ req[r].pc = "cp_pre"
    /\ LET msg == get_transport_info_request(Some(req[r].ip))
       IN  \E shape \in Shapes(msg) :
             LET current_state == get_transport_info(Response(shape, TransportText(msg.ip)))
             IN  /\ Exchange(msg, shape)
                 /\ req' = [req EXCEPT ![r] =
                       [Step(@, msg, shape, "cp_cmd", NoReply)
                          EXCEPT !.current_state = current_state]]
    /\ UNCHANGED <<nops, lastGet>>

\* (mutant: the new state is read whatever the device answered)
after_command_requery(rq, accepted) ==
    IF rq.action \in {"Next", "Previous"}
    THEN [rq EXCEPT !.pc = "cp_sleep"]
    ELSE [rq EXCEPT !.pc = "cp_state"]

\* control_playback from the response to the command to its next await: on
\* status 200 without a fault marker the sleep (Next/Previous) or the read
\* of the new state (Play/Pause), else return None
after_command(rq, accepted) ==
    IF ~accepted THEN device_after_playback(rq, NoResult)
    ELSE IF rq.action \in {"Next", "Previous"}
    THEN [rq EXCEPT !.pc = "cp_sleep"]
    ELSE [rq EXCEPT !.pc = "cp_state"]

\* control_playback: the command is posted
CpCmd(r) ==
    /\ req[r].pc = "cp_cmd"
    /\ LET msg == playback_request(Some(req[r].ip), req[r].action)
       IN  \E shape \in Shapes(msg) :
             LET resp == Response(shape, None)
                 accepted == ~resp.exc /\ resp.status = HttpOk /\ ~resp.fault
             IN  /\ Exchange(msg, shape)
                 /\ req' = [req EXCEPT ![r] =
                       after_command(Step(@, msg, shape, "cp_cmd", NoReply), accepted)]
    /\ UNCHANGED <<nops, lastGet>>

\* control_playback, Next/Previous: await asyncio.sleep(0.5)
CpSleep(r) ==
    /\ req[r].pc = "cp_sleep"
    /\ req' = [req EXCEPT ![r] = [@ EXCEPT !.pc = "cp_track", !.slept = TRUE]]
    /\ UNCHANGED <<devVars, nops, faults, lastGet>>

\* control_playback, Next/Previous, after the sleep:
\* track = await get_track_info(session, ip)
CpTrack(r) ==
    /\ req[r].pc = "cp_track"
    /\ LET msg == get_track_info_request(Some(req[r].ip))
       IN  \E shape \in Shapes(msg) :
             LET track == get_track_info(Response(shape, TrackText(msg.ip)))
             IN  /\ Exchange(msg, shape)
                 /\ req' = [req EXCEPT ![r] =
                       [Step(@, msg, shape, "cp_state", NoReply)
                          EXCEPT !.cp_track = track]]
    /\ UNCHANGED <<nops, lastGet>>

\* control_playback: new_state = await get_transport_info(session, ip), and
\* the return into control_device
CpState(r) ==
    /\ req[r].pc = "cp_state"
    /\ LET msg == get_transport_info_request(Some(req[r].ip))
       IN  \E shape \in Shapes(msg) :
             LET new_state == get_transport_info(Response(shape, TransportText(msg.ip)))
                 rq == Step(req[r], msg, shape, "cp_state", NoReply)
             IN  /\ Exchange(msg, shape)
                 /\ req' = [req EXCEPT ![r] =
                       device_after_playback(rq,
                           playback_result(rq.action, rq.current_state, new_state,
                                           rq.cp_track))]
    /\ UNCHANGED <<nops, lastGet>>

\* control_device, Play/Pause with new_state == "PLAYING":
\* track = await get_track_info(session, ip)
CdTrack(r) ==
    /\ req[r].pc = "cd_track"
    /\ LET msg == get_track_info_request(Some(req[r].ip))
       IN  \E shape \in Shapes(msg) :
             LET track == get_track_info(Response(shape, TrackText(msg.ip)))
                 reply == [Reply(TRUE, "") EXCEPT !.state = req[r].result.state,
                                                  !.track = track]
             IN  /\ Exchange(msg, shape)
                 /\ req' = [req EXCEPT ![r] = Step(@, msg, shape, "done", reply)]
    /\ UNCHANGED <<nops, lastGet>>

control_device(r) ==
    \/ BeginDevice(r)
    \/ CdState(r)
    \/ CdGetTrack(r)
    \/ CpPre(r)
    \/ CpCmd(r)
    \/ CpSleep(r)
    \/ CpTrack(r)
    \/ CpState(r)
    \/ CdTrack(r)

\* a device that was told to play gets there, in its own time
Settle ==
    /\ \E h \in Hosts :
          /\ devState[h] = "TRANSITIONING"
          /\ devState' = [devState EXCEPT ![h] = "PLAYING"]
    /\ UNCHANGED <<devVol, devMute, devTrack, appVars>>

----------------------------------------------------------------------------
(* discover_sonos_topology(), src/sonos/discovery.py 14-219, called by the *)
(* index handler, src/app.py 27-35.                                        *)

\* session.get(location)
get_device_info_request(location) ==
    Msg(hostname(Some(location)), DescriptionPath, "GET", None)

\* the description document of the device at a host, by its one-token text:
\* the texts of friendlyName, roomName, modelName and zoneName (None: no such
\* element)
Description(text) ==
    CASE text = <<"a">> ->
            [name |-> Some("Kitchen One"), room |-> Some("Kitchen"),
             model |-> Some("Sonos One"), zone |-> None]
      [] text = <<"b">> ->
            [name |-> Some("bath Five"), room |-> Some("bath"),
             model |-> Some("Sonos Five"), zone |-> None]
      [] text = <<"c">> ->
            [name |-> Some("Roam"), room |-> None,
             model |-> Some("Sonos Roam"), zone |-> None]
      [] OTHER ->
            [name |-> Some("Bridge"), room |-> None,
             model |-> Some("Hue Bridge"), zone |-> None]
DescriptionText(ip) == <<Val(ip)>>

\* get_device_info: the info dict of a 200 response with a device element in
\* the UPnP namespace, None on anything else
get_device_info(resp) ==
    IF resp.exc THEN None
    ELSE IF resp.status # HttpOk THEN None
    ELSE IF ~resp.wf THEN None
    ELSE IF resp.where # "exact" THEN None
    ELSE LET d == Description(resp.text)
         IN  Some([name |-> IF d.name # None THEN Val(d.name) ELSE "Unknown",
                   room |-> d.room,
                   model |-> IF d.model # None THEN Val(d.model) ELSE "Unknown",
                   zone |-> d.zone])

\* info.get('model', '').startswith('Sonos')
StartsWithSonos(model) == model \in {"Sonos One", "Sonos Five", "Sonos Roam"}

\* str.lower() of the names in use
Lower(s) ==
    CASE s = "Kitchen" -> "kitchen"
      [] s = "Attic" -> "attic"
      [] s = "Roam" -> "roam"
      [] s = "Kitchen One" -> "kitchen one"
      [] s = "bath Five" -> "bath five"
      [] s = "Bridge" -> "bridge"
      [] s = "Unknown" -> "unknown"
      [] OTHER -> s

\* the lower-case names in use, in the order of str comparison
KeyOrder ==
    <<"", "attic", "bath", "bath five", "bridge", "kitchen", "kitchen one",
      "roam", "unknown">>
KeyRank(s) == CHOOSE k \in 1..Len(KeyOrder) : KeyOrder[k] = s

\* x.get('room', '').lower() if x.get('room') else x.get('name', '').lower()
SortKey(device) ==
    IF device.room # None /\ Val(device.room) # ""
    THEN Lower(Val(device.room)) ELSE Lower(device.name)

\* list.sort(key=...): stable, ascending
RECURSIVE InsertByKey(_, _)
InsertByKey(sorted, device) ==
    IF sorted = << >> THEN <<device>>
    ELSE IF KeyRank(SortKey(device)) < KeyRank(SortKey(Head(sorted)))
         THEN <<device>> \o sorted
         ELSE <<Head(sorted)>> \o InsertByKey(Tail(sorted), device)

RECURSIVE SortDevices(_)
SortDevices(devices) ==
    IF devices = << >> THEN << >>
    ELSE InsertByKey(SortDevices(SubSeq(devices, 1, Len(devices) - 1)),
                     Last(devices))

\* an SSDP datagram: whether it decodes and splits into headers, and the
\* value of its location header (None: no such header)
Datagram(location) == [decodes |-> TRUE, location |-> Some(location)]
NoLocation == [decodes |-> TRUE, location |-> None]
Undecodable == [decodes |-> FALSE, location |-> None]

\* the datagrams received within the window, in order of arrival
SsdpScenarios ==
    {<< >>,
     <<Datagram(LocA)>>,
     <<Datagram(LocB), Datagram(LocA), Datagram(LocB)>>,
     <<Undecodable, Datagram(LocC), NoLocation>>,
     <<NoLocation, Undecodable>>,
     <<Datagram(LocP), Datagram(LocA)>>,
     <<Datagram(LocC), Datagram(LocB), Datagram(LocA)>>}

\* the dict appended for an SSDP response
SsdpDevice(location) ==
    [name |-> "Unknown", location |-> location, type |-> "Unknown",
     ip |-> hostname(Some(location)),
     room |-> None, model |-> None, zone |-> None, groups |-> << >>,
     volume |-> None]

\* (mutant: every response with a location header is appended)
RECURSIVE ssdp_collect_nodedup(_, _, _)
ssdp_collect_nodedup(datagrams, devices, device_locations) ==
    IF datagrams = << >>
    THEN [devices |-> devices, device_locations |-> device_locations]
    ELSE LET d == Head(datagrams)
         IN  IF d.decodes /\ d.location # None
             THEN ssdp_collect_nodedup(Tail(datagrams),
                                       Append(devices, SsdpDevice(Val(d.location))),
                                       device_locations \cup {Val(d.location)})
             ELSE ssdp_collect_nodedup(Tail(datagrams), devices, device_locations)

\* the receive loop: devices and device_locations after the datagrams
RECURSIVE ssdp_collect(_, _, _)
ssdp_collect(datagrams, devices, device_locations) ==
    IF datagrams = << >>
    THEN [devices |-> devices, device_locations |-> device_locations]
    ELSE LET d == Head(datagrams)
         IN  IF d.decodes /\ d.location # None
                /\ Val(d.location) \notin device_locations
             THEN ssdp_collect(Tail(datagrams),
                               Append(devices, SsdpDevice(Val(d.location))),
                               device_locations \cup {Val(d.location)})
             ELSE ssdp_collect(Tail(datagrams), devices, device_locations)

\* device.update(info)
UpdateDevice(device, info) ==
    [device EXCEPT !.name = info.name, !.room = info.room,
                   !.model = Some(info.model), !.zone = info.zone]

\* the dict made for a topology member that SSDP did not announce
TopologyDevice(member) ==
    [name |-> IF member.zone_name # None /\ Val(member.zone_name) # ""
              THEN Val(member.zone_name) ELSE "Unknown",
     location |-> Val(member.location), type |-> "Unknown",
     ip |-> hostname(member.location),
     room |-> member.zone_name, model |-> None, zone |-> None,
     groups |-> << >>, volume |-> None]

\* state_root.findall(".//ZoneGroupMember"): the members of all groups, in
\* document order
RECURSIVE AllMembers(_)
AllMembers(groups) ==
    IF groups = << >> THEN << >>
    ELSE Head(groups).members \o AllMembers(Tail(groups))

\* (mutant: the location of a new device is not remembered)
RECURSIVE missing_devices_forgetful(_, _)
missing_devices_forgetful(members, device_locations) ==
    IF members = << >> THEN << >>
    ELSE LET member == Head(members)
         IN  IF member.location # None /\ Val(member.location) # ""
                /\ Val(member.location) \notin device_locations
             THEN <<TopologyDevice(member)>>
                      \o missing_devices_forgetful(Tail(members), device_locations)
             ELSE missing_devices_forgetful(Tail(members), device_locations)

\* the loop over all_members: the new devices, one per location that is
\* not in device_locations, which grows by each
RECURSIVE missing_devices(_, _)
missing_devices(members, device_locations) ==
    IF members = << >> THEN << >>
    ELSE LET member == Head(members)
         IN  IF member.location # None /\ Val(member.location) # ""
                /\ Val(member.location) \notin device_locations
             THEN <<TopologyDevice(member)>>
                      \o missing_devices(Tail(members),
                                         device_locations \cup {Val(member.location)})
             ELSE missing_devices(Tail(members), device_locations)

\* the group_info dicts, one per ZoneGroup, their members still to come
GroupsInfo(groups) ==
    [g \in 1..Len(groups) |->
        [id |-> groups[g].id, coordinator |-> groups[g].coordinator,
         members |-> << >>]]

\* the volume tasks of the visible members of group g from the k-th on:
\* one per member whose Location has a host
RECURSIVE MemberTasks(_, _, _)
MemberTasks(groups, g, k) ==
    IF k > Len(groups[g].members) THEN << >>
    ELSE LET member == groups[g].members[k]
             member_ip == hostname(member.location)
         IN  (IF IsVisible(member) /\ member_ip # None
              THEN <<[member |-> member, ip |-> member_ip, g |-> g]>>
              ELSE << >>)
             \o MemberTasks(groups, g, k + 1)

\* volume_tasks: the tasks of all groups from the g-th on, in document order
RECURSIVE VolumeTasks(_, _)
VolumeTasks(groups, g) ==
    IF g > Len(groups) THEN << >>
    ELSE MemberTasks(groups, g, 1) \o VolumeTasks(groups, g + 1)

\* (repair: the volume is clamped before it is stored)
resolved_volume_clamped(volume) ==
    IF volume # None THEN ClampVolume(Val(volume)) ELSE 0

\* (mutant: a failed fetch is recorded as full volume)
resolved_volume_full(volume) == IF volume # None THEN Val(volume) ELSE MaxVolume

\* volume if volume is not None else 0
resolved_volume(volume) == IF volume # None THEN Val(volume) ELSE 0

\* (mutant: only the visible members' locations count)
GroupsOf_visible(groups, location) ==
    SelectSeq([g \in 1..Len(groups) |-> groups[g]],
              LAMBDA group : \E k \in 1..Len(group.members) :
                                 /\ IsVisible(group.members[k])
                                 /\ group.members[k].location = Some(location))

\* the IDs of the groups that have a member, visible or not, at location
GroupsOf(groups, location) ==
    SelectSeq([g \in 1..Len(groups) |-> groups[g]],
              LAMBDA group : \E k \in 1..Len(group.members) :
                                 group.members[k].location = Some(location))

\* the end of the function: the groups attached when the zone state was
\* parsed, a volume of 0 where none was resolved, the list sorted
finish_discovery(rq, parsed) ==
    LET groups == Topology(rq.zone_state).groups
        attached == [n \in 1..Len(rq.devices) |->
                        [rq.devices[n] EXCEPT
                            !.groups = IF parsed
                                       THEN [j \in 1..Len(GroupsOf(groups, rq.devices[n].location))
                                               |-> GroupsOf(groups, rq.devices[n].location)[j].id]
                                       ELSE << >>,
                            !.volume = IF @ = None THEN Some(0) ELSE @]]
    IN  [rq EXCEPT !.devices = SortDevices(attached), !.pc = "done",
                   !.reply = Reply(TRUE, "")]

\* from the new devices to the volume tasks
discovery_after_new_devices(rq) ==
    LET groups == Topology(rq.zone_state).groups
        volume_tasks == VolumeTasks(groups, 1)
        got == [rq EXCEPT !.groups_info = GroupsInfo(groups),
                          !.volume_tasks = volume_tasks, !.i = 1]
    IN  IF volume_tasks = << >> THEN finish_discovery(got, TRUE)
        ELSE [got EXCEPT !.pc = "ix_vol"]

\* from the zone state to the next await
discovery_after_zone_state(rq, zone_state) ==
    LET state_root == Topology(zone_state)
        got == [rq EXCEPT !.zone_state = zone_state]
        new_device_tasks ==
            missing_devices(AllMembers(state_root.groups), rq.device_locations)
    IN  IF ~state_root.wf THEN finish_discovery(got, FALSE)
        ELSE IF new_device_tasks = << >> THEN discovery_after_new_devices(got)
        ELSE [got EXCEPT !.pc = "ix_new", !.new_devices = new_device_tasks,
                         !.i = 1,
                         !.device_locations =
                             @ \cup {new_device_tasks[n].location :
                                        n \in 1..Len(new_device_tasks)}]

\* the socket calls that can raise, in the order the function makes them,
\* and "none" for a run in which none does
SocketFailures == <<"socket", "setsockopt", "bind", "sendto", "none">>

\* how the listen loop ends: the one-second window is over, or recvfrom
\* timed out
SsdpEnds == {"window", "timeout"}

\* (mutant: the socket is closed on the normal path only)
close_socket_leaky(sock, raising) ==
    IF sock # "none" /\ ~raising THEN "closed" ELSE sock

\* finally: if sock: sock.close()
close_socket(sock, raising) == IF sock # "none" THEN "closed" ELSE sock

\* the function up to its first await, the sleep that follows the listen
\* loop: the socket is made, configured and bound and the search sent
\* (failure: the call that raised; the exception passes the finally clause
\* and leaves the function, and index answers with status 500), then the
\* receive loop
index_entry(datagrams, failure, ssdp_end) ==
    LET rq == NewReq("index", "", "discover", None, "done")
        found == ssdp_collect(datagrams, << >>, {})
    IN  IF failure = "socket"
        THEN [rq EXCEPT !.sock = close_socket("none", TRUE),
                        !.reply = Reply(FALSE, "Error loading devices")]
        ELSE IF failure # "none"
        THEN [rq EXCEPT !.sock = close_socket("open", TRUE),
                        !.reply = Reply(FALSE, "Error loading devices")]
        ELSE [rq EXCEPT !.pc = "ix_sleep", !.sock = "open",
                        !.ssdp_end = ssdp_end, !.datagrams = datagrams,
                        !.devices = found.devices,
                        !.device_locations = found.device_locations]

BeginIndex(r) ==
    /\ Free(r)
    /\ nops < MaxOps
    /\ \E datagrams \in SsdpScenarios, f \in 1..Len(SocketFailures),
          ssdp_end \in SsdpEnds :
          req' = [req EXCEPT ![r] =
                    index_entry(datagrams, SocketFailures[f], ssdp_end)]
    /\ nops' = nops + 1
    /\ UNCHANGED <<devVars, faults, lastGet>>

\* await asyncio.sleep(0.1), the finally clause, return [] on no device
IxSleep(r) ==
    /\ req[r].pc = "ix_sleep"
    /\ req' = [req EXCEPT ![r] =
          LET rq == [@ EXCEPT !.sock = close_socket(@, FALSE)]
          IN  IF rq.devices = << >>
              THEN [rq EXCEPT !.pc = "done", !.reply = Reply(TRUE, "")]
              ELSE [rq EXCEPT !.pc = "ix_info", !.i = 1]]
    /\ UNCHANGED <<devVars, nops, faults, lastGet>>

\* the body of the loop over info_tasks for the info its task returned, and
\* what follows the loop: return [] when no device is left
await_info(rq, info) ==
    LET device == rq.devices[rq.i]
        got == [rq EXCEPT !.filtered =
                              IF info # None /\ StartsWithSonos(Val(info).model)
                              THEN Append(@, UpdateDevice(device, Val(info)))
                              ELSE @,
                          !.i = @ + 1]
    IN  IF got.i <= Len(got.devices) THEN got
        ELSE IF got.filtered = << >>
        THEN [got EXCEPT !.devices = << >>, !.pc = "done",
                         !.reply = Reply(TRUE, "")]
        ELSE [got EXCEPT !.devices = got.filtered, !.pc = "ix_zone", !.i = 1]

\* info = await task, for the devices SSDP announced
IxInfo(r) ==
    /\ req[r].pc = "ix_info"
    /\ LET device == req[r].devices[req[r].i]
           msg == get_device_info_request(device.location)
       IN  \E shape \in Shapes(msg) :
             LET info == get_device_info(Response(shape, DescriptionText(msg.ip)))
             IN  /\ Exchange(msg, shape)
                 /\ req' = [req EXCEPT ![r] =
                       await_info(Step(@, msg, shape, "ix_info", NoReply), info)]
    /\ UNCHANGED <<nops, lastGet>>

\* (mutant: the first device alone is asked)
await_zone_state_once(rq, zone_state) ==
    IF zone_state # None
    THEN discovery_after_zone_state([rq EXCEPT !.i = @ + 1], zone_state)
    ELSE [rq EXCEPT !.i = @ + 1, !.pc = "done", !.reply = Reply(TRUE, "")]

\* the body of the loop over devices for the zone state a device gave:
\* break when there is one, else the next device; return devices when the
\* loop ends without
await_zone_state(rq, zone_state) ==
    LET got == [rq EXCEPT !.i = @ + 1]
    IN  IF zone_state # None
        THEN discovery_after_zone_state(got, zone_state)
        ELSE IF got.i <= Len(got.devices) THEN got
        ELSE [got EXCEPT !.pc = "done", !.reply = Reply(TRUE, "")]

\* zone_state = await get_zone_group_state(session, device['ip'])
IxZone(r) ==
    /\ req[r].pc = "ix_zone"
    /\ LET msg == get_zone_group_state_request(req[r].devices[req[r].i].ip)
       IN  \E shape \in Shapes(msg), text \in TopologyTexts :
             LET zone_state == get_zone_group_state(
                                   Response(shape, ZoneStateText(text)))
             IN  /\ Exchange(msg, shape)
                 /\ req' = [req EXCEPT ![r] =
                       await_zone_state(Step(@, msg, shape, "ix_zone", NoReply),
                                        zone_state)]
    /\ UNCHANGED <<nops, lastGet>>

\* the body of the loop over new_device_tasks for the info its task
\* returned, and what follows the loop
await_new_device(rq, info) ==
    LET new_device == rq.new_devices[rq.i]
        got == [rq EXCEPT !.devices =
                              IF info # None /\ StartsWithSonos(Val(info).model)
                              THEN Append(@, UpdateDevice(new_device, Val(info)))
                              ELSE @,
                          !.i = @ + 1]
    IN  IF got.i <= Len(got.new_devices) THEN got
        ELSE discovery_after_new_devices(got)

\* info = await task, for the new devices of the topology
IxNew(r) ==
    /\ req[r].pc = "ix_new"
    /\ LET new_device == req[r].new_devices[req[r].i]
           msg == get_device_info_request(new_device.location)
       IN  \E shape \in Shapes(msg) :
             LET info == get_device_info(Response(shape, DescriptionText(msg.ip)))
             IN  /\ Exchange(msg, shape)
                 /\ req' = [req EXCEPT ![r] =
                       await_new_device(Step(@, msg, shape, "ix_new", NoReply), info)]
    /\ UNCHANGED <<nops, lastGet>>

\* the body of the loop over volume_tasks for the volume its task returned:
\* the member gets the volume, or 0, and so does the device at the member's
\* location; and what follows the loop
await_volume(rq, volume) ==
    LET task == rq.volume_tasks[rq.i]
        member_info == [uuid |-> task.member.uuid,
                        zone_name |-> task.member.zone_name,
                        location |-> task.member.location,
                        volume |-> resolved_volume(volume)]
        got == [rq EXCEPT !.groups_info[task.g].members = Append(@, member_info),
                          !.devices =
                              [n \in 1..Len(@) |->
                                 IF Some(@[n].location) = task.member.location
                                 THEN [@[n] EXCEPT !.volume =
                                          Some(resolved_volume(volume))]
                                 ELSE @[n]],
                          !.i = @ + 1]
    IN  IF got.i <= Len(got.volume_tasks) THEN got
        ELSE finish_discovery(got, TRUE)

\* volume = await task
IxVol(r) ==
    /\ req[r].pc = "ix_vol"
    /\ LET task == req[r].volume_tasks[req[r].i]
           msg == get_volume_request(task.ip)
       IN  \E shape \in Shapes(msg) :
             LET volume == get_volume(Response(shape, VolumeText(msg.ip)))
             IN  /\ Exchange(msg, shape)
                 /\ req' = [req EXCEPT ![r] =
                       await_volume(Step(@, msg, shape, "ix_vol", NoReply), volume)]
                 /\ lastGet' = NoteGet(msg.ip, volume, shape)
    /\ UNCHANGED nops

index(r) ==
    \/ BeginIndex(r)
    \/ IxSleep(r)
    \/ IxInfo(r)
    \/ IxZone(r)
    \/ IxNew(r)
    \/ IxVol(r)

----------------------------------------------------------------------------
(* The fan-outs of discover_sonos_topology as asyncio tasks.  create_task  *)
(* starts a coroutine that runs beside the function: its exchange with the *)
(* device happens at any moment after the task was made, in any order      *)
(* among the tasks of the fan-out, and the function takes the result where *)
(* it awaits the task.  finished holds the tasks that have returned, in    *)
(* the order they did, each with the fan-out it belongs to, its place in   *)
(* the list of tasks and the value it returned.                            *)

FinishedTask(fanout, k, result) == [fanout |-> fanout, k |-> k, result |-> result]

\* the k-th task of the fan-out was made and has not returned
task_pending(finished, fanout, k) ==
    \A n \in 1..Len(finished) :
        ~(finished[n].fanout = fanout /\ finished[n].k = k)

\* (mutant: await hands over whatever is there, without waiting)
task_done_nowait(finished, fanout, k) == fanout = fanout

\* task.done(): the k-th task of the fan-out has returned
task_done(finished, fanout, k) ==
    \E n \in 1..Len(finished) :
        finished[n].fanout = fanout /\ finished[n].k = k

\* the tasks of the fan-out that have returned, in the order they did
FinishedOf(finished, fanout) ==
    SelectSeq(finished, LAMBDA t : t.fanout = fanout)

\* (mutant: the result of the task that returned k-th)
task_result_by_arrival(finished, fanout, k) ==
    IF k <= Len(FinishedOf(finished, fanout))
    THEN FinishedOf(finished, fanout)[k].result
    ELSE None

\* await task: the value the k-th task of the fan-out returned; await
\* returns for a task that is done
task_result(finished, fanout, k) ==
    LET at == {n \in 1..Len(finished) :
                  finished[n].fanout = fanout /\ finished[n].k = k}
    IN  IF at # {} THEN finished[CHOOSE n \in at : TRUE].result ELSE None

\* a task made by asyncio.create_task(get_device_info(session,
\* device['location'])) runs to its end
InfoTask(r) ==
    /\ req[r].pc = "ix_info"
    /\ \E k \in 1..Len(req[r].devices) :
          /\ task_pending(req[r].finished, "info", k)
          /\ LET msg == get_device_info_request(req[r].devices[k].location)
             IN  \E shape \in Shapes(msg) :
                   LET info == get_device_info(Response(shape, DescriptionText(msg.ip)))
                   IN  /\ Exchange(msg, shape)
                       /\ req' = [req EXCEPT ![r] =
                             [Step(@, msg, shape, "ix_info", NoReply)
                                EXCEPT !.finished = Append(@, FinishedTask("info", k, info))]]
    /\ UNCHANGED <<nops, lastGet>>

\* info = await task, in the loop over info_tasks
AwaitInfo(r) ==
    /\ req[r].pc = "ix_info"
    /\ task_done(req[r].finished, "info", req[r].i)
    /\ req' = [req EXCEPT ![r] =
          await_info(@, task_result(@.finished, "info", @.i))]
    /\ UNCHANGED <<devVars, nops, faults, lastGet>>

\* a task made by asyncio.create_task(get_device_info(session, location))
\* for a new device runs to its end
NewDeviceTask(r) ==
    /\ req[r].pc = "ix_new"
    /\ \E k \in 1..Len(req[r].new_devices) :
          /\ task_pending(req[r].finished, "new", k)
          /\ LET msg == get_device_info_request(req[r].new_devices[k].location)
             IN  \E shape \in Shapes(msg) :
                   LET info == get_device_info(Response(shape, DescriptionText(msg.ip)))
                   IN  /\ Exchange(msg, shape)
                       /\ req' = [req EXCEPT ![r] =
                             [Step(@, msg, shape, "ix_new", NoReply)
                                EXCEPT !.finished = Append(@, FinishedTask("new", k, info))]]
    /\ UNCHANGED <<nops, lastGet>>

\* info = await task, in the loop over new_device_tasks
AwaitNewDevice(r) ==
    /\ req[r].pc = "ix_new"
    /\ task_done(req[r].finished, "new", req[r].i)
    /\ req' = [req EXCEPT ![r] =
          await_new_device(@, task_result(@.finished, "new", @.i))]
    /\ UNCHANGED <<devVars, nops, faults, lastGet>>

\* a task made by asyncio.create_task(get_volume(session, member_ip)) runs
\* to its end
VolumeTask(r) ==
    /\ req[r].pc = "ix_vol"
    /\ \E k \in 1..Len(req[r].volume_tasks) :
          /\ task_pending(req[r].finished, "volume", k)
          /\ LET msg == get_volume_request(req[r].volume_tasks[k].ip)
             IN  \E shape \in Shapes(msg) :
                   LET volume == get_volume(Response(shape, VolumeText(msg.ip)))
                   IN  /\ Exchange(msg, shape)
                       /\ req' = [req EXCEPT ![r] =
                             [Step(@, msg, shape, "ix_vol", NoReply)
                                EXCEPT !.finished = Append(@, FinishedTask("volume", k, volume))]]
                       /\ lastGet' = NoteGet(msg.ip, volume, shape)
    /\ UNCHANGED nops

\* volume = await task, in the loop over volume_tasks
AwaitVolume(r) ==
    /\ req[r].pc = "ix_vol"
    /\ task_done(req[r].finished, "volume", req[r].i)
    /\ req' = [req EXCEPT ![r] =
          await_volume(@, task_result(@.finished, "volume", @.i))]
    /\ UNCHANGED <<devVars, nops, faults, lastGet>>

\* discover_sonos_topology with its tasks running beside it
index_tasks(r) ==
    \/ BeginIndex(r)
    \/ IxSleep(r)
    \/ InfoTask(r)
    \/ AwaitInfo(r)
    \/ IxZone(r)
    \/ NewDeviceTask(r)
    \/ AwaitNewDevice(r)
    \/ VolumeTask(r)
    \/ AwaitVolume(r)

----------------------------------------------------------------------------
(* The control specification: invocations of the control handlers, one     *)
(* after another, against devices that change when a request changes them  *)
(* and when a started device reaches PLAYING.                              *)
Slots == {1}

Init ==
    /\ devVol \in InitVolumes
    /\ devMute = [h \in Hosts |-> FALSE]
    /\ devState \in {[h \in Hosts |-> "STOPPED"], [h \in Hosts |-> "PLAYING"]}
    /\ devTrack = [h \in Hosts |-> 1]
    /\ req = [r \in Slots |-> IdleReq]
    /\ nops = 0
    /\ faults = 0
    /\ lastGet = [h \in Hosts |-> None]

Next ==
    \/ \E r \in Slots : control_volume(r)
    \/ \E r \in Slots : control_group_volume(r)
    \/ \E r \in Slots : control_device(r)
    \/ Settle

Spec == Init /\ [][Next]_vars

(* The discovery specification: the index handler alone.                   *)
InitDisc ==
    /\ devVol \in {Volumes(20, 40, 60), Volumes(100, 0, 51)}
    /\ devMute = [h \in Hosts |-> FALSE]
    /\ devState = [h \in Hosts |-> "STOPPED"]
    /\ devTrack = [h \in Hosts |-> 1]
    /\ req = [r \in Slots |-> IdleReq]
    /\ nops = 0
    /\ faults = 0
    /\ lastGet = [h \in Hosts |-> None]

NextDisc == \E r \in Slots : index(r)

SpecDisc == InitDisc /\ [][NextDisc]_vars

(* The lookup specification: one call of get_volume, get_mute,             *)
(* get_transport_info or get_track_info (src/sonos/control.py) for a       *)
(* device in any of its states, answered with any shape, the two with a    *)
(* decoy included.                                                         *)
LookupStep(r) ==
    /\ Free(r)
    /\ nops < MaxOps
    /\ \E ip \in Hosts,
          f \in {"get_volume", "get_mute", "get_transport_info", "get_track_info"} :
          LET msg == CASE f = "get_volume" -> get_volume_request(Some(ip))
                       [] f = "get_mute" -> get_mute_request(Some(ip))
                       [] f = "get_transport_info" -> get_transport_info_request(Some(ip))
                       [] OTHER -> get_track_info_request(Some(ip))
              text == CASE f = "get_volume" -> VolumeText(Some(ip))
                        [] f = "get_mute" -> MuteText(Some(ip))
                        [] f = "get_transport_info" -> TransportText(Some(ip))
                        [] OTHER -> TrackText(Some(ip))
          IN  \E shape \in Shapes(msg) \cup DecoyShapes :
                LET resp == Response(shape, text)
                    value == CASE f = "get_volume" -> get_volume(resp)
                               [] f = "get_mute" -> get_mute(resp)
                               [] f = "get_transport_info" -> get_transport_info(resp)
                               [] OTHER -> get_track_info(resp)
                IN  /\ devVol' = DevVolAfter(msg, shape)
                    /\ devMute' = DevMuteAfter(msg, shape)
                    /\ devState' = DevStateAfter(msg, shape)
                    /\ devTrack' = DevTrackAfter(msg, shape)
                    /\ req' = [req EXCEPT ![r] =
                          [NewReq("lookup", ip, f, None, "done")
                             EXCEPT !.parsed = [shape |-> shape, value |-> value],
                                    !.trace = <<TraceEntry(msg, shape)>>]]
    /\ nops' = nops + 1
    /\ UNCHANGED <<faults, lastGet>>

InitLookup ==
    /\ devVol \in InitVolumes
    /\ devMute \in {[h \in Hosts |-> FALSE], [h \in Hosts |-> TRUE]}
    /\ devState \in {[h \in Hosts |-> "STOPPED"], [h \in Hosts |-> "PLAYING"]}
    /\ devTrack \in {[h \in Hosts |-> n] : n \in 1..NumTracks}
    /\ req = [r \in Slots |-> IdleReq]
    /\ nops = 0
    /\ faults = 0
    /\ lastGet = [h \in Hosts |-> None]

NextLookup == \E r \in Slots : LookupStep(r)

SpecLookup == InitLookup /\ [][NextLookup]_vars

(* The task specification: the index handler alone, the tasks of its       *)
(* fan-outs returning in any order.                                        *)
InitTasks ==
    /\ devVol = Volumes(20, 40, 60)
    /\ devMute = [h \in Hosts |-> FALSE]
    /\ devState = [h \in Hosts |-> "STOPPED"]
    /\ devTrack = [h \in Hosts |-> 1]
    /\ req = [r \in Slots |-> IdleReq]
    /\ nops = 0
    /\ faults = 0
    /\ lastGet = [h \in Hosts |-> None]

NextTasks == \E r \in Slots : index_tasks(r)

SpecTasks == InitTasks /\ [][NextTasks]_vars

----------------------------------------------------------------------------
(* The race specification: two 'up'/'down' requests in flight at once.     *)
(* Every request has its own aiohttp session and its own coroutine         *)
(* (src/app.py 73, 119); the server handles requests side by side, so the  *)
(* awaits of the two interleave freely.  The devices are what they share.  *)
RaceSlots == {1, 2}

\* the volumes the devices hold when the two requests arrive
RaceVolumes == Volumes(20, 99, 1)

InitRace ==
    /\ devVol = RaceVolumes
    /\ devMute = [h \in Hosts |-> FALSE]
    /\ devState = [h \in Hosts |-> "STOPPED"]
    /\ devTrack = [h \in Hosts |-> 1]
    /\ req = [r \in RaceSlots |-> IdleReq]
    /\ nops = 0
    /\ faults = 0
    /\ lastGet = [h \in Hosts |-> None]

\* the request that arrives is for the device or group, and in the
\* direction, of the one that arrived before it
SameAsEarlier(r, handler, ip, action) ==
    \A q \in RaceSlots \ {r} :
        \/ req[q].pc = "idle"
        \/ req[q].handler = handler /\ req[q].ip = ip /\ req[q].action = action

\* GET /api/volume/<ip>/up or /down arrives
ArriveVolume(r) ==
    /\ req[r].pc = "idle"
    /\ \E ip \in Hosts, name \in {"up", "down"} :
          /\ SameAsEarlier(r, "control_volume", ip, name)
          /\ req' = [req EXCEPT ![r] =
                    control_volume_entry(ip, [name |-> name, text |-> None])]
    /\ nops' = nops + 1
    /\ UNCHANGED <<devVars, faults, lastGet>>

\* GET /api/group_volume/<ip>/up or /down arrives
ArriveGroup(r) ==
    /\ req[r].pc = "idle"
    /\ \E ip \in Hosts, a \in {"up", "down"} :
          /\ SameAsEarlier(r, "control_group_volume", ip, a)
          /\ req' = [req EXCEPT ![r] =
                    NewReq("control_group_volume", ip, a, None, "gv_cur")]
    /\ nops' = nops + 1
    /\ UNCHANGED <<devVars, faults, lastGet>>

NextRace ==
    \E r \in RaceSlots :
        \/ ArriveVolume(r)
        \/ CvAdjGet(r)
        \/ CvAdjSet(r)
        \/ ArriveGroup(r)
        \/ GvCur(r)
        \/ GvZone(r)
        \/ GvAdjGet(r)
        \/ GvAdjSet(r)

SpecRace == InitRace /\ [][NextRace]_vars

----------------------------------------------------------------------------
(* What the claims are stated with.                                        *)

\* clamp(v, 0, 100), written out
Clamped(v) == IF v < 0 THEN 0 ELSE IF v > 100 THEN 100 ELSE v

\* the handler in slot r has returned
Returned(r, handler, actions) ==
    /\ req[r].handler = handler
    /\ req[r].action \in actions
    /\ req[r].pc = "done"

\* the exchange got a value back / the device carried the action out
GaveValue(e) == e.class \in {"ok", "odd"}
Status200(e) ==
    \/ e.class \in {"ok", "fault200"}
    \/ e.action \in WriteActions /\ e.class = "malformed"
CarriedOut(e) == e.class = "ok"

\* the visible members of the first group of the document that holds a
\* member at host ip, in document order
GroupsHolding(groups, ip) ==
    {g \in 1..Len(groups) :
        \E k \in 1..Len(groups[g].members) :
            hostname(groups[g].members[k].location) = Some(ip)}
ExpectedMembers(zone_state, ip) ==
    LET groups == Topology(zone_state).groups
        holding == GroupsHolding(groups, ip)
    IN  IF holding = {} THEN << >>
        ELSE LET g == CHOOSE x \in holding : \A y \in holding : x <= y
             IN  SelectSeq(groups[g].members,
                           LAMBDA m : m.invisible = None \/ m.invisible = Some("0"))

\* M is an integer nearest to total / n
Nearest(M, total, n) ==
    /\ 2 * (n * M - total) <= n
    /\ 2 * (total - n * M) <= n

\* the exchanges of the "mean" handler: the coordinator's volume, the zone
\* state, one fetch per member, one set per member
FetchOf(r, k) == req[r].trace[2 + k]
SetOf(r, k) == req[r].trace[2 + Len(req[r].members) + k]
HostOf(r, k) == hostname(req[r].members[k].location)

\* C2: set_volume(ip, v) that the device accepted, then get_volume(ip) with
\* no write in between, returns clamp(v, 0, 100), for v inside and outside
\* the range: the "set/<v>" request replies with the volume read back.
C2_SetThenGet ==
    \A r \in Slots :
        (/\ Returned(r, "control_volume", {"set"})
         /\ Len(req[r].trace) = 2
         /\ CarriedOut(req[r].trace[1])
         /\ req[r].trace[2].class = "ok")
        => /\ req[r].reply.success
           /\ req[r].reply.volume = Some(Clamped(Val(ParseInt(req[r].text))))
           /\ devVol[req[r].ip] = Clamped(Val(ParseInt(req[r].text)))

C2_Witness ==
    \E r \in Slots :
        /\ Returned(r, "control_volume", {"set"})
        /\ req[r].text = <<"1", "5", "0">>
        /\ Len(req[r].trace) = 2
        /\ CarriedOut(req[r].trace[1])
        /\ req[r].reply.volume = Some(100)

\* the awaits at which a handler calls a get_* function
ReadPcs ==
    {"cv_get", "cv_set_read", "cv_adj_get", "gv_cur", "gv_zone", "gv_mean_get",
     "gv_adj_get", "cd_state", "cd_gettrack", "cp_pre", "cp_track", "cp_state",
     "cd_track"}

\* C3: a get_* call leaves every device's volume, mute and transport state
\* as they were, and get_volume returns the same value as the last
\* get_volume for that host when no SetVolume was sent to it in between.
C3_ReadsChangeNothing ==
    [][/\ \A r \in Slots :
            (req[r].pc \in ReadPcs /\ req'[r] # req[r])
            => (devVol' = devVol /\ devMute' = devMute /\ devState' = devState
                /\ devTrack' = devTrack)
       /\ \A h \in Hosts :
            (lastGet[h] # None /\ lastGet'[h] # None) => lastGet'[h] = lastGet[h]
      ]_vars

\* two get_volume calls for one host, both answered, no SetVolume between
C3_Witness ==
    \E r \in Slots : \E i, j \in 1..Len(req[r].trace) :
        /\ i < j
        /\ req[r].trace[i].action = "GetVolume" /\ CarriedOut(req[r].trace[i])
        /\ req[r].trace[j].action = "GetVolume" /\ CarriedOut(req[r].trace[j])
        /\ req[r].trace[i].ip = req[r].trace[j].ip
        /\ \A k \in i..j : req[r].trace[k].action # "SetVolume"

----------------------------------------------------------------------------
(* Group volume, "mean".                                                   *)

\* the "mean" handler in slot r has made its fetches: one per member
MeanFetched(r) ==
    /\ req[r].handler = "control_group_volume"
    /\ req[r].action = "mean"
    /\ req[r].members # << >>
    /\ Len(req[r].trace) >= 2 + Len(req[r].members)

\* the values the fetches of the "mean" handler gave, in member order
RECURSIVE FetchedValues(_, _)
FetchedValues(r, k) ==
    IF k = 0 THEN << >>
    ELSE IF GaveValue(FetchOf(r, k))
         THEN Append(FetchedValues(r, k - 1), FetchOf(r, k).val)
         ELSE FetchedValues(r, k - 1)

\* the members whose set came back with status 200, each with volume M
RECURSIVE MeanResults(_, _, _)
MeanResults(r, k, M) ==
    IF k = 0 THEN << >>
    ELSE IF Status200(SetOf(r, k))
         THEN Append(MeanResults(r, k - 1, M), [ip |-> HostOf(r, k), volume |-> M])
         ELSE MeanResults(r, k - 1, M)

\* C4: "mean" for ip, every visible member's fetch and set succeeding: the
\* members are the visible members of ip's group, every one of them ends
\* with the mean of the fetched volumes rounded to a nearest integer, and
\* the results list each member, in order, with that value.
C4_GroupMean ==
    \A r \in Slots :
        LET n == Len(req[r].members)
        IN  (/\ Returned(r, "control_group_volume", {"mean"})
             /\ MeanFetched(r)
             /\ Len(req[r].trace) = 2 + 2 * n
             /\ \A k \in 1..n : FetchOf(r, k).class = "ok" /\ CarriedOut(SetOf(r, k)))
            => LET total == SumSeq(FetchedValues(r, n))
               IN  \E M \in {total \div n, (total \div n) + 1} :
                     /\ Nearest(M, total, n)
                     /\ req[r].members = ExpectedMembers(req[r].zone_state, req[r].ip)
                     /\ req[r].reply.success
                     /\ Len(req[r].reply.results) = n
                     /\ \A k \in 1..n :
                          /\ req[r].reply.results[k] = [ip |-> HostOf(r, k), volume |-> M]
                          /\ devVol[Val(HostOf(r, k))] = M

\* volumes 20, 40, 60 fetched from the three members: every member at 40
C4_Witness ==
    \E r \in Slots :
        /\ Returned(r, "control_group_volume", {"mean"})
        /\ Len(req[r].members) = 3
        /\ Len(req[r].trace) = 8
        /\ \A k \in 1..3 : FetchOf(r, k).class = "ok" /\ CarriedOut(SetOf(r, k))
        /\ FetchedValues(r, 3) = <<20, 40, 60>>
        /\ \A k \in 1..3 : req[r].reply.results[k].volume = 40
        /\ \A h \in Hosts : devVol[h] = 40

\* C5: a visible member of the "mean" group whose fetch failed is left out
\* of the set as well as of the mean: no SetVolume is sent to it and it is
\* in no result.
C5_NoSetAfterFailedFetch ==
    \A r \in Slots :
        MeanFetched(r) =>
            \A k \in 1..Len(req[r].members) :
                ~GaveValue(FetchOf(r, k)) =>
                    /\ \A j \in 1..Len(req[r].trace) :
                          ~(req[r].trace[j].action = "SetVolume"
                            /\ req[r].trace[j].ip = HostOf(r, k))
                    /\ \A j \in 1..Len(req[r].reply.results) :
                          req[r].reply.results[j].ip # HostOf(r, k)

\* C5, what the code does: a member of the "mean" group whose fetch failed
\* is left out of the mean only.  When some fetch gave a value, the mean M of the values given
\* is sent, clamped, to every visible member, the failed one included, and
\* the results list, with M, exactly the members whose set came back with
\* status 200; when no fetch gave a value nothing is sent and the request
\* fails.
C5_MeanFetchFailed ==
    \A r \in Slots :
        (Returned(r, "control_group_volume", {"mean"}) /\ MeanFetched(r)) =>
            LET n == Len(req[r].members)
                fetched == FetchedValues(r, n)
            IN  IF fetched = << >>
                THEN /\ Len(req[r].trace) = 2 + n
                     /\ ~req[r].reply.success
                ELSE LET total == SumSeq(fetched)
                         c == Len(fetched)
                     IN  \E M \in {total \div c, (total \div c) + 1} :
                           /\ Nearest(M, total, c)
                           /\ Len(req[r].trace) = 2 + 2 * n
                           /\ \A k \in 1..n :
                                SetOf(r, k) = [SetOf(r, k) EXCEPT
                                    !.ip = HostOf(r, k), !.action = "SetVolume",
                                    !.arg = IntToText(Clamped(M))]
                           /\ req[r].reply.success
                           /\ req[r].reply.results = MeanResults(r, n, M)

\* one member's fetch failed, another's gave a value; the member whose
\* fetch failed was sent the mean, took it and is listed
C5_Witness ==
    \E r \in Slots :
        /\ Returned(r, "control_group_volume", {"mean"})
        /\ MeanFetched(r)
        /\ Len(req[r].trace) = 2 + 2 * Len(req[r].members)
        /\ \E k \in 1..Len(req[r].members) :
              /\ ~GaveValue(FetchOf(r, k))
              /\ HostOf(r, k) # None
              /\ CarriedOut(SetOf(r, k))
              /\ \E j \in 1..Len(req[r].reply.results) :
                    req[r].reply.results[j].ip = HostOf(r, k)
              /\ devVol[Val(HostOf(r, k))] = req[r].mean_volume

----------------------------------------------------------------------------
(* Volume "up" / "down", for one device and for a group.                   *)

\* an "up" / "down" handler runs or has returned in slot r
Adjusting(r) ==
    /\ req[r].handler \in {"control_volume", "control_group_volume"}
    /\ req[r].action \in {"up", "down"}

\* min(100, current + 2) for "up", max(0, current - 2) for "down"
Stepped(current, action) ==
    IF action = "up"
    THEN (IF current + 2 > 100 THEN 100 ELSE current + 2)
    ELSE (IF current - 2 < 0 THEN 0 ELSE current - 2)

\* C6: "up" sets a device whose fetch succeeded to min(100, current + 2),
\* "down" to max(0, current - 2): every SetVolume of an "up"/"down" request
\* follows a fetch from the same device that gave a value, carries that
\* value stepped and clamped, which is within [0,100] and is what the
\* device holds once it has carried the set out; every volume reported is
\* the one sent, within [0,100].
C6_UpDownClamped ==
    \A r \in Slots :
        Adjusting(r) =>
            /\ \A j \in 1..Len(req[r].trace) :
                  LET e == req[r].trace[j]
                  IN  e.action = "SetVolume" =>
                        /\ j > 1
                        /\ req[r].trace[j - 1].action = "GetVolume"
                        /\ req[r].trace[j - 1].ip = e.ip
                        /\ GaveValue(req[r].trace[j - 1])
                        /\ ParseInt(e.arg) # None
                        /\ Val(ParseInt(e.arg)) \in 0..100
                        /\ req[r].trace[j - 1].class = "ok" =>
                              Val(ParseInt(e.arg)) =
                                  Stepped(req[r].trace[j - 1].val, req[r].action)
                        /\ CarriedOut(e) => devVol[Val(e.ip)] = Val(ParseInt(e.arg))
            /\ \A j \in 1..Len(req[r].reply.results) :
                  LET res == req[r].reply.results[j]
                  IN  /\ res.volume \in 0..100
                      /\ \E i \in 1..Len(req[r].trace) :
                            /\ req[r].trace[i].action = "SetVolume"
                            /\ req[r].trace[i].ip = res.ip
                            /\ req[r].trace[i].arg = IntToText(res.volume)
            /\ req[r].reply.volume # None =>
                  /\ Val(req[r].reply.volume) \in 0..100
                  /\ Last(req[r].trace).arg = IntToText(Val(req[r].reply.volume))

\* a group "up" with a member at 99 now at 100, and so reported
C6_Witness ==
    \E r \in Slots :
        /\ Returned(r, "control_group_volume", {"up"})
        /\ \E j \in 2..Len(req[r].trace) :
              /\ req[r].trace[j].action = "SetVolume"
              /\ CarriedOut(req[r].trace[j])
              /\ req[r].trace[j - 1].class = "ok"
              /\ req[r].trace[j - 1].val = 99
              /\ devVol[Val(req[r].trace[j].ip)] = 100
              /\ \E i \in 1..Len(req[r].reply.results) :
                    req[r].reply.results[i] =
                        [ip |-> req[r].trace[j].ip, volume |-> 100]

\* a "down" for one device at 1, now at 0, and so reported
C6_WitnessDown ==
    \E r \in Slots :
        /\ Returned(r, "control_volume", {"down"})
        /\ Len(req[r].trace) = 2
        /\ req[r].trace[1].class = "ok" /\ req[r].trace[1].val = 1
        /\ CarriedOut(req[r].trace[2])
        /\ devVol[req[r].ip] = 0
        /\ req[r].reply.volume = Some(0)

\* the exchanges of the group "up"/"down" handler from the j-th on are those
\* of the members from the k-th on, each member a fetch and, when the fetch
\* gave a value, a set; res are the hosts listed so far: a member is listed
\* exactly when its fetch gave a value and its set came back with status 200
RECURSIVE AdjWalk(_, _, _, _)
AdjWalk(r, j, k, res) ==
    IF k > Len(req[r].members)
    THEN /\ j = Len(req[r].trace) + 1
         /\ Len(req[r].reply.results) = Len(res)
         /\ \A i \in 1..Len(res) : req[r].reply.results[i].ip = res[i]
    ELSE /\ j <= Len(req[r].trace)
         /\ req[r].trace[j].action = "GetVolume"
         /\ req[r].trace[j].ip = HostOf(r, k)
         /\ IF GaveValue(req[r].trace[j])
            THEN /\ j + 1 <= Len(req[r].trace)
                 /\ req[r].trace[j + 1].action = "SetVolume"
                 /\ req[r].trace[j + 1].ip = HostOf(r, k)
                 /\ AdjWalk(r, j + 2, k + 1,
                            IF Status200(req[r].trace[j + 1])
                            THEN Append(res, HostOf(r, k)) ELSE res)
            ELSE AdjWalk(r, j + 1, k + 1, res)

\* C7: group "up"/"down": every visible member of the group is processed,
\* whatever happened to the ones before it; a member whose fetch failed is
\* sent no SetVolume; the result list holds exactly the members whose fetch
\* and whose set both succeeded.
C7_ResultIffBoth ==
    \A r \in Slots :
        (Returned(r, "control_group_volume", {"up", "down"}) /\ req[r].members # << >>)
        => /\ req[r].members = ExpectedMembers(req[r].zone_state, req[r].ip)
           /\ req[r].reply.success
           /\ AdjWalk(r, 3, 1, << >>)

\* a member's exchange failed, and a later member was set and is listed
C7_Witness ==
    \E r \in Slots :
        /\ Returned(r, "control_group_volume", {"up", "down"})
        /\ Len(req[r].members) >= 2
        /\ ~GaveValue(req[r].trace[3])
        /\ Len(req[r].reply.results) >= 1
        /\ \E i \in 1..Len(req[r].reply.results) :
              req[r].reply.results[i].ip = HostOf(r, 2)

\* a member's set was refused with status 500: it is not listed, the next is
C7_WitnessSetFailed ==
    \E r \in Slots :
        /\ Returned(r, "control_group_volume", {"up", "down"})
        /\ Len(req[r].members) >= 2
        /\ Len(req[r].trace) >= 6
        /\ req[r].trace[4].action = "SetVolume" /\ req[r].trace[4].class = "s500"
        /\ \A i \in 1..Len(req[r].reply.results) :
              req[r].reply.results[i].ip # HostOf(r, 1)
        /\ \E i \in 1..Len(req[r].reply.results) :
              req[r].reply.results[i].ip = HostOf(r, 2)

----------------------------------------------------------------------------
(* Playback.                                                               *)

\* control_playback, called by the handler in slot r, has returned after a
\* command the device accepted
PlaybackReturned(r) ==
    /\ req[r].handler = "control_device"
    /\ req[r].action \in PlaybackActions
    /\ req[r].pc \in {"cd_track", "done"}
    /\ Len(req[r].trace) >= 2
    /\ CarriedOut(req[r].trace[2])

\* what get_transport_info made of the exchange e: the state the device was
\* in when it answered, the text of a result element that is no state, or
\* None
StateRead(e) ==
    IF e.class = "ok" THEN {Some(StateText(e.state))} ELSE {None, Some(Garbage)}

\* what get_track_info made of the exchange e: the parts of the track the
\* device was at when it answered, or None
TrackRead(e) ==
    IF e.class = "ok" /\ JoinParts(Metadata(<<TrackDocs[e.track]>>)) # << >>
    THEN Some(JoinParts(Metadata(<<TrackDocs[e.track]>>)))
    ELSE None

\* the states a device can be in once it has accepted the command
StatesAfter(action) ==
    IF action = "Pause" THEN {"PAUSED_PLAYBACK", "STOPPED"}
    ELSE {"TRANSITIONING", "PLAYING"}

\* C8: control_playback after an accepted command returns the pair
\* (new_state, track) for Next and Previous and new_state alone for Play and
\* Pause; new_state is what the GetTransportInfo sent after the command gave,
\* the state the device was in then, and track what the GetPositionInfo sent
\* after the command gave.
C8_PlaybackResult ==
    \A r \in Slots :
        PlaybackReturned(r) =>
            LET tr == req[r].trace
                res == req[r].result
            IN  /\ tr[1].action = "GetTransportInfo"
                /\ tr[2].action = req[r].action
                /\ IF req[r].action \in {"Next", "Previous"}
                   THEN /\ Len(tr) = 4
                        /\ tr[3].action = "GetPositionInfo"
                        /\ tr[4].action = "GetTransportInfo"
                        /\ res.kind = "pair"
                        /\ res.state \in StateRead(tr[4])
                        /\ res.track = TrackRead(tr[3])
                        /\ tr[4].class = "ok" => tr[4].state \in StatesAfter(req[r].action)
                   ELSE /\ Len(tr) >= 3
                        /\ tr[3].action = "GetTransportInfo"
                        /\ res.kind = "single"
                        /\ res.state \in StateRead(tr[3])
                        /\ res.track = None
                        /\ tr[3].class = "ok" => tr[3].state \in StatesAfter(req[r].action)

\* Next on a stopped device at its first track: the pair of the state and
\* the track after the command
C8_Witness ==
    \E r \in Slots :
        /\ PlaybackReturned(r)
        /\ req[r].action = "Next"
        /\ req[r].trace[1].class = "ok" /\ req[r].trace[1].state = "STOPPED"
        /\ req[r].result = [kind |-> "pair", state |-> Some(StateText("TRANSITIONING")),
                            track |-> Some(<<"Radio", " - ", "Live">>)]
        /\ req[r].reply.state = Some(StateText("TRANSITIONING"))

\* Pause on a playing device: the state alone, read after the command
C8_WitnessPause ==
    \E r \in Slots :
        /\ PlaybackReturned(r)
        /\ req[r].action = "Pause"
        /\ req[r].trace[1].class = "ok" /\ req[r].trace[1].state = "PLAYING"
        /\ req[r].result = [kind |-> "single",
                            state |-> Some(StateText("PAUSED_PLAYBACK")),
                            track |-> None]

\* the handler in slot r sent a GetPositionInfo
AskedTrack(r) ==
    \E j \in 1..Len(req[r].trace) : req[r].trace[j].action = "GetPositionInfo"

\* C9: a Play or Pause request: the handler asks the device for its track
\* exactly when the state control_playback returned is "PLAYING"; for any
\* other returned state no GetPositionInfo is sent and the reply has no
\* track.
C9_TrackOnlyWhenPlaying ==
    \A r \in Slots :
        Returned(r, "control_device", {"Play", "Pause"}) =>
            /\ AskedTrack(r) <=>
                  (req[r].result.kind = "single"
                   /\ req[r].result.state = Some(StateText("PLAYING")))
            /\ req[r].result.state # Some(StateText("PLAYING")) =>
                  req[r].reply.track = None
            /\ req[r].reply.success => req[r].reply.state = req[r].result.state

\* Play accepted by a stopped device that is still TRANSITIONING when asked:
\* the reply has the state and no track, and no GetPositionInfo was sent
C9_Witness ==
    \E r \in Slots :
        /\ Returned(r, "control_device", {"Play"})
        /\ req[r].reply.success
        /\ req[r].reply.state = Some(StateText("TRANSITIONING"))
        /\ req[r].reply.track = None
        /\ Len(req[r].trace) = 3
        /\ ~AskedTrack(r)

\* Play with the device PLAYING when asked: the reply has the track
C9_WitnessPlaying ==
    \E r \in Slots :
        /\ Returned(r, "control_device", {"Play"})
        /\ req[r].reply.state = Some(StateText("PLAYING"))
        /\ req[r].reply.track = Some(<<"Song", " - ", "Band", " - ", "Album">>)
        /\ AskedTrack(r)

----------------------------------------------------------------------------
(* Discovery.                                                              *)

\* discover_sonos_topology, called in slot r, has returned a list made with
\* a zone state
Discovered(r) ==
    /\ Returned(r, "index", {"discover"})
    /\ req[r].reply.success
    /\ req[r].zone_state # None

\* the locations the SSDP responses of the run carried
Announced(r) ==
    {Val(req[r].datagrams[n].location) :
        n \in {k \in 1..Len(req[r].datagrams) : req[r].datagrams[k].location # None}}

\* how many devices of the returned list have the location
CountAt(r, location) ==
    Cardinality({n \in 1..Len(req[r].devices) : req[r].devices[n].location = location})

\* the description of the device at location was fetched, and found to be
\* that of a Sonos player
Described(r, location) ==
    \E j \in 1..Len(req[r].trace) :
        /\ req[r].trace[j].action = "GET"
        /\ req[r].trace[j].ip = hostname(Some(location))
        /\ req[r].trace[j].class = "ok"
        /\ StartsWithSonos(Val(get_device_info(
               Response("ok_exact", DescriptionText(req[r].trace[j].ip)))).model)

\* C1: every device of the list discover_sonos_topology returns, its volumes
\* resolved, has a volume within [0,100], whatever integer the device's
\* GetVolume response carried.
C1_VolumeInRange ==
    \A r \in Slots :
        Discovered(r) =>
            \A n \in 1..Len(req[r].devices) :
                /\ req[r].devices[n].volume # None
                /\ Val(req[r].devices[n].volume) \in 0..100

\* C1, what the code does: the volume of a returned device is the integer
\* of the last GetVolume response for a visible member at its location, as
\* it came, or 0 when that response gave none or no such member was asked.
C1_VolumeAsReported ==
    \A r \in Slots :
        Discovered(r) =>
            \A n \in 1..Len(req[r].devices) :
                LET host == hostname(Some(req[r].devices[n].location))
                    asked == {j \in 1..Len(req[r].trace) :
                                 /\ req[r].trace[j].action = "GetVolume"
                                 /\ req[r].trace[j].ip = host}
                IN  req[r].devices[n].volume =
                        IF asked = {} THEN Some(0)
                        ELSE LET j == CHOOSE x \in asked : \A y \in asked : y <= x
                             IN  IF GaveValue(req[r].trace[j])
                                 THEN Some(req[r].trace[j].val)
                                 ELSE Some(0)

\* a device answered GetVolume with 150, and is returned with volume 150
C1_Witness ==
    \E r \in Slots :
        /\ Discovered(r)
        /\ \E n \in 1..Len(req[r].devices) :
              req[r].devices[n].volume = Some(Val(ParseInt(AboveRange)))

\* C10: a Sonos player whose location is in the zone-group topology and in
\* no SSDP response is in the returned list exactly once when the fetch of
\* its description succeeded, however many member elements carry its
\* location; and no location is in the list twice.
C10_TopologyOnlyOnce ==
    \A r \in Slots :
        Discovered(r) =>
            LET members == AllMembers(Topology(req[r].zone_state).groups)
            IN  /\ \A k \in 1..Len(members) :
                      (/\ members[k].location # None
                       /\ Val(members[k].location) \notin Announced(r)
                       /\ Described(r, Val(members[k].location)))
                      => CountAt(r, Val(members[k].location)) = 1
                /\ \A n \in 1..Len(req[r].devices) :
                      CountAt(r, req[r].devices[n].location) = 1

\* the location of c, announced by no SSDP response, is carried by two
\* member elements: c is in the list once
C10_Witness ==
    \E r \in Slots :
        /\ Discovered(r)
        /\ req[r].zone_state = ZoneStateText("T5")
        /\ LocC \notin Announced(r)
        /\ Described(r, LocC)
        /\ CountAt(r, LocC) = 1

\* discover_sonos_topology, called in slot r, has returned to index
DiscoveryReturned(r) ==
    /\ Returned(r, "index", {"discover"})
    /\ req[r].reply.success

\* C11: no two devices of the list discover_sonos_topology returns have the
\* same location, on every return path, whatever SSDP datagrams arrived
\* (locations repeated or not) and whatever topology document was served.
C11_UniqueLocations ==
    \A r \in Slots :
        Returned(r, "index", {"discover"}) =>
            \A m, n \in 1..Len(req[r].devices) :
                req[r].devices[m].location = req[r].devices[n].location => m = n

\* b announced itself twice and a once; both are in the returned list
C11_Witness ==
    \E r \in Slots :
        /\ DiscoveryReturned(r)
        /\ \E j, k \in 1..Len(req[r].datagrams) :
              /\ j # k
              /\ req[r].datagrams[j] = Datagram(LocB)
              /\ req[r].datagrams[k] = Datagram(LocB)
        /\ CountAt(r, LocB) = 1
        /\ CountAt(r, LocA) = 1

\* no zone state was obtained, and the list returned holds a twice-announced
\* device once
C11_WitnessNoZoneState ==
    \E r \in Slots :
        /\ DiscoveryReturned(r)
        /\ req[r].zone_state = None
        /\ Len(req[r].datagrams) > Cardinality(Announced(r))
        /\ CountAt(r, LocB) = 1

----------------------------------------------------------------------------
(* Malformed responses.                                                    *)

\* the j-th exchange of the handler in slot r came back with status 200 and
\* a body that is not well-formed XML
MalformedAt(r, j) == req[r].trace[j].class = "malformed"

\* the host of the j-th exchange is listed in the results of the reply
ListedAt(r, j) ==
    \E i \in 1..Len(req[r].reply.results) :
        req[r].reply.results[i].ip = req[r].trace[j].ip

\* the zone state the handler got is a text that does not parse
TopologyUnparsed(r) ==
    /\ req[r].zone_state # None
    /\ ~Topology(req[r].zone_state).wf

\* C12: a response that does not parse makes the operation it answers
\* return its negative result: the lookup of a volume request gives no
\* value (and a request that needs the value fails), a SetVolume or SetMute so answered counts as
\* failed (the request fails, a group member is not listed), a playback
\* command so answered gives no result, a topology document that does not
\* parse ends the group request with an error and no SetVolume sent; the
\* other members of a group pass are fetched, set and listed all the same.
C12_MalformedNegative ==
    \A r \in Slots :
        /\ Returned(r, "control_volume", {"get", "mute", "unmute", "set", "up", "down"}) =>
              \A j \in 1..Len(req[r].trace) :
                  MalformedAt(r, j) =>
                      IF req[r].trace[j].action = "GetVolume"
                      THEN /\ req[r].reply.volume = None
                           /\ req[r].action # "set" => ~req[r].reply.success
                      ELSE ~req[r].reply.success
        /\ (Returned(r, "control_group_volume", {"up", "down"}) /\ req[r].members # << >>) =>
              /\ \A j \in 3..Len(req[r].trace) : MalformedAt(r, j) => ~ListedAt(r, j)
              /\ \A k \in 1..Len(req[r].members) :
                    \E j \in 3..Len(req[r].trace) :
                        /\ req[r].trace[j].action = "GetVolume"
                        /\ req[r].trace[j].ip = HostOf(r, k)
                        /\ req[r].trace[j].class = "ok" =>
                              /\ j < Len(req[r].trace)
                              /\ req[r].trace[j + 1].action = "SetVolume"
                              /\ req[r].trace[j + 1].ip = HostOf(r, k)
                              /\ CarriedOut(req[r].trace[j + 1]) => ListedAt(r, j)
        /\ (Returned(r, "control_group_volume", GroupRequests) /\ TopologyUnparsed(r)) =>
              /\ ~req[r].reply.success
              /\ req[r].reply.results = << >>
              /\ \A j \in 1..Len(req[r].trace) : req[r].trace[j].action # "SetVolume"
        /\ (Returned(r, "control_device", PlaybackActions)
            /\ Len(req[r].trace) >= 2 /\ MalformedAt(r, 2)) =>
              /\ req[r].result.kind = "absent"
              /\ ~req[r].reply.success

\* C12, what the code does: a lookup whose response does not parse gives
\* no value, and a topology document that does not parse ends the group
\* request with an error; set_volume and set_mute do not read the body, so
\* a SetVolume answered with status 200 and a body that does not parse
\* counts as done, and control_playback, which looks for the fault marker
\* only, goes on to read the state.
C12_MalformedAsCoded ==
    \A r \in Slots :
        /\ Returned(r, "control_volume", {"get", "mute", "unmute", "set", "up", "down"}) =>
              \A j \in 1..Len(req[r].trace) :
                  MalformedAt(r, j) =>
                      IF req[r].trace[j].action = "GetVolume"
                      THEN /\ req[r].reply.volume = None
                           /\ req[r].action # "set" => ~req[r].reply.success
                      ELSE req[r].reply.success
        /\ (Returned(r, "control_group_volume", {"up", "down"}) /\ req[r].members # << >>) =>
              \A j \in 3..Len(req[r].trace) :
                  MalformedAt(r, j) =>
                      IF req[r].trace[j].action = "GetVolume"
                      THEN /\ ~ListedAt(r, j)
                           /\ j < Len(req[r].trace) =>
                                 req[r].trace[j + 1].action = "GetVolume"
                      ELSE ListedAt(r, j)
        /\ (Returned(r, "control_group_volume", GroupRequests) /\ TopologyUnparsed(r)) =>
              /\ ~req[r].reply.success
              /\ req[r].reply.results = << >>
              /\ \A j \in 1..Len(req[r].trace) : req[r].trace[j].action # "SetVolume"
        /\ (Returned(r, "control_device", PlaybackActions)
            /\ Len(req[r].trace) >= 2 /\ MalformedAt(r, 2)) =>
              /\ req[r].result.kind # "absent"
              /\ Len(req[r].trace) >= 3

\* a "set/37" request whose SetVolume came back with a body that does not
\* parse: the device still holds its old volume, and the request succeeded
C12_Witness ==
    \E r \in Slots :
        /\ Returned(r, "control_volume", {"set"})
        /\ Len(req[r].trace) = 2
        /\ req[r].trace[1].action = "SetVolume"
        /\ MalformedAt(r, 1)
        /\ req[r].reply.success
        /\ req[r].reply.volume # Some(37)
        /\ req[r].new_volume = 37

\* a group "up" whose second member's fetch came back unparseable: that
\* member is not listed, the first and the third are
C12_WitnessSibling ==
    \E r \in Slots :
        /\ Returned(r, "control_group_volume", {"up"})
        /\ Len(req[r].members) = 3
        /\ Len(req[r].trace) = 7
        /\ req[r].trace[5].action = "GetVolume" /\ MalformedAt(r, 5)
        /\ Len(req[r].reply.results) = 2
        /\ req[r].reply.results[1].ip = HostOf(r, 1)
        /\ req[r].reply.results[2].ip = HostOf(r, 3)

\* C12, discovery: a zone state that does not parse leaves the devices
\* described so far, without groups and with volume 0, and no exception
C12_TopologyUnparsedDiscovery ==
    \A r \in Slots :
        (Returned(r, "index", {"discover"}) /\ TopologyUnparsed(r)) =>
            /\ req[r].reply.success
            /\ req[r].devices # << >>
            /\ \A n \in 1..Len(req[r].devices) :
                  /\ req[r].devices[n].groups = << >>
                  /\ req[r].devices[n].volume = Some(0)
            /\ \A j \in 1..Len(req[r].trace) : req[r].trace[j].action # "GetVolume"

C12_WitnessDiscovery ==
    \E r \in Slots :
        /\ Returned(r, "index", {"discover"}) /\ TopologyUnparsed(r)
        /\ Len(req[r].devices) = 3

----------------------------------------------------------------------------
(* The SSDP phase of discovery.                                            *)

\* the index handler in slot r runs discover_sonos_topology, or has
IndexRun(r) == req[r].handler = "index"

\* the exception of discover_sonos_topology reached index, which answered
\* with status 500
DiscoveryRaised(r) ==
    /\ Returned(r, "index", {"discover"})
    /\ ~req[r].reply.success

\* C13: discover_sonos_topology returns on every path and lets no
\* exception out: when the socket cannot be made, configured or bound, when
\* the search cannot be sent, and when no usable response arrives, it
\* returns the empty list.
C13_NoExceptionEscapes ==
    \A r \in Slots :
        Returned(r, "index", {"discover"}) =>
            /\ ~DiscoveryRaised(r)
            /\ Announced(r) = {} => req[r].devices = << >>

\* C13, what the code does: with the socket set up and the search sent,
\* a run in which no response with a location arrives returns the empty
\* list and makes no request; an exception of a socket call leaves the
\* function.
C13_EmptyWithoutResponse ==
    \A r \in Slots :
        Returned(r, "index", {"discover"}) =>
            IF req[r].ssdp_end = ""
            THEN DiscoveryRaised(r) /\ req[r].trace = << >>
            ELSE /\ req[r].reply.success
                 /\ Announced(r) = {} =>
                       req[r].devices = << >> /\ req[r].trace = << >>

\* a socket call raised after the socket was made: the exception left
\* discover_sonos_topology, and index answered "Error loading devices"
C13_Witness ==
    \E r \in Slots :
        /\ DiscoveryRaised(r)
        /\ req[r].sock = "closed"
        /\ req[r].reply.error = "Error loading devices"
        /\ req[r].trace = << >>

\* datagrams arrived, none of them usable: the empty list
C13_WitnessNoUsable ==
    \E r \in Slots :
        /\ DiscoveryReturned(r)
        /\ req[r].datagrams # << >>
        /\ Announced(r) = {}
        /\ req[r].devices = << >>

\* C14: the UDP socket, once made, is closed on every exit of the SSDP
\* phase: it is closed when discover_sonos_topology has returned or raised,
\* whether the listen loop ended with the window or with a timeout or a
\* socket call raised, and it is closed before the first description is
\* fetched.
C14_SocketClosed ==
    \A r \in Slots :
        IndexRun(r) =>
            /\ req[r].pc = "done" => req[r].sock # "open"
            /\ req[r].pc = "done" /\ req[r].reply.success => req[r].sock = "closed"
            /\ req[r].pc \notin {"ix_sleep", "done"} => req[r].sock = "closed"
            /\ req[r].trace # << >> => req[r].sock = "closed"
            /\ req[r].sock = "open" => req[r].pc = "ix_sleep"

\* the search could not be sent: the function raised, the socket is closed
C14_Witness ==
    \E r \in Slots :
        /\ DiscoveryRaised(r)
        /\ req[r].sock = "closed"

\* the listen loop ended with a timeout; the socket is closed and the
\* first description is about to be fetched
C14_WitnessTimeout ==
    \E r \in Slots :
        /\ IndexRun(r)
        /\ req[r].ssdp_end = "timeout"
        /\ req[r].pc = "ix_info"
        /\ req[r].trace = << >>
        /\ req[r].sock = "closed"

\* the listen loop ended with the window and no device: [] is returned
\* with the socket closed
C14_WitnessWindow ==
    \E r \in Slots :
        /\ DiscoveryReturned(r)
        /\ req[r].ssdp_end = "window"
        /\ req[r].devices = << >>
        /\ req[r].sock = "closed"

----------------------------------------------------------------------------
(* The list discover_sonos_topology returns.                               *)

\* no device gave a zone state: the list was returned as it stood
WithoutZoneState(r) ==
    /\ DiscoveryReturned(r)
    /\ req[r].devices # << >>
    /\ req[r].zone_state = None

\* a GetVolume was sent to the host of the device
VolumeAsked(r, device) ==
    \E j \in 1..Len(req[r].trace) :
        /\ req[r].trace[j].action = "GetVolume"
        /\ req[r].trace[j].ip = device.ip

\* C15: every device of a list discover_sonos_topology returns has an
\* integer volume, 0 when none was fetched, on every return path, the one
\* taken when no device gave a zone state included.
C15_VolumeResolved ==
    \A r \in Slots :
        DiscoveryReturned(r) =>
            \A n \in 1..Len(req[r].devices) :
                /\ req[r].devices[n].volume # None
                /\ ~VolumeAsked(r, req[r].devices[n]) =>
                      req[r].devices[n].volume = Some(0)

\* C15, what the code does: a list made with a zone state has an integer
\* volume for every device, 0 when none was fetched; the list returned when
\* no device gave a zone state has no volume for any device.
C15_ResolvedWithZoneState ==
    \A r \in Slots :
        DiscoveryReturned(r) =>
            \A n \in 1..Len(req[r].devices) :
                IF req[r].zone_state = None
                THEN req[r].devices[n].volume = None
                ELSE /\ req[r].devices[n].volume # None
                     /\ ~VolumeAsked(r, req[r].devices[n]) =>
                           req[r].devices[n].volume = Some(0)

\* no device gave a zone state, and the devices are returned without a
\* volume
C15_Witness ==
    \E r \in Slots :
        /\ WithoutZoneState(r)
        /\ \E j \in 1..Len(req[r].trace) : req[r].trace[j].action = "GetZoneGroupState"
        /\ \A n \in 1..Len(req[r].devices) : req[r].devices[n].volume = None

\* a device that is no visible member of the topology is returned with
\* volume 0
C15_WitnessDefault ==
    \E r \in Slots :
        /\ Discovered(r)
        /\ \E n \in 1..Len(req[r].devices) :
              /\ ~VolumeAsked(r, req[r].devices[n])
              /\ req[r].devices[n].volume = Some(0)
        /\ \E n \in 1..Len(req[r].devices) : VolumeAsked(r, req[r].devices[n])

\* the devices stand in the order of their keys: the room in lower case
\* when there is one, else the name in lower case
InKeyOrder(devices) ==
    \A m, n \in 1..Len(devices) :
        m < n => KeyRank(SortKey(devices[m])) <= KeyRank(SortKey(devices[n]))

\* C16: a list discover_sonos_topology returns is ordered by room, or by
\* name for a device without room, case-insensitively, on every return
\* path, the one taken when no device gave a zone state included.
C16_ListOrdered ==
    \A r \in Slots :
        DiscoveryReturned(r) => InKeyOrder(req[r].devices)

\* C16, what the code does: a list made with a zone state is ordered; the
\* list returned when no device gave a zone state is in the order in which
\* the SSDP responses arrived.
C16_OrderedWithZoneState ==
    \A r \in Slots :
        DiscoveryReturned(r) =>
            IF req[r].zone_state # None
            THEN InKeyOrder(req[r].devices)
            ELSE \A m, n \in 1..Len(req[r].devices) :
                    m < n =>
                        \E j, k \in 1..Len(req[r].datagrams) :
                            /\ j < k
                            /\ req[r].datagrams[j] = Datagram(req[r].devices[m].location)
                            /\ req[r].datagrams[k] = Datagram(req[r].devices[n].location)

\* c, b and a answered the search in this order and no device gave a zone
\* state: the list is Roam, bath, Kitchen
C16_Witness ==
    \E r \in Slots :
        /\ WithoutZoneState(r)
        /\ Len(req[r].devices) = 3
        /\ req[r].devices[1].location = LocC
        /\ req[r].devices[2].location = LocB
        /\ req[r].devices[3].location = LocA
        /\ ~InKeyOrder(req[r].devices)

\* the same responses with a zone state: the list is bath, Kitchen, Roam
C16_WitnessSorted ==
    \E r \in Slots :
        /\ Discovered(r)
        /\ req[r].datagrams = <<Datagram(LocC), Datagram(LocB), Datagram(LocA)>>
        /\ Len(req[r].devices) = 3
        /\ req[r].devices[1].location = LocB
        /\ req[r].devices[2].location = LocA
        /\ req[r].devices[3].location = LocC

----------------------------------------------------------------------------
(* Refused requests.                                                       *)

\* the j-th exchange of the handler in slot r came back with a status
\* other than 200, or with a fault marker in its body, or both
RefusedAt(r, j) == req[r].trace[j].class \in {"s500", "s404", "fault200"}

\* C17: an operation whose response has a status other than 200, or a
\* body with a fault marker, fails: a lookup gives no value (and a request
\* that needs the value fails), set_volume and set_mute give False (the
\* request fails, a group member is not listed), control_playback gives no
\* result.
C17_RefusedFails ==
    \A r \in Slots :
        /\ Returned(r, "control_volume", {"get", "mute", "unmute", "set", "up", "down"}) =>
              \A j \in 1..Len(req[r].trace) :
                  RefusedAt(r, j) =>
                      IF req[r].trace[j].action = "GetVolume"
                      THEN /\ req[r].reply.volume = None
                           /\ req[r].action # "set" => ~req[r].reply.success
                      ELSE ~req[r].reply.success
        /\ (Returned(r, "control_group_volume", {"up", "down"}) /\ req[r].members # << >>) =>
              \A j \in 3..Len(req[r].trace) : RefusedAt(r, j) => ~ListedAt(r, j)
        /\ Returned(r, "control_group_volume", GroupRequests) =>
              \A j \in 1..Min2(2, Len(req[r].trace)) :
                  RefusedAt(r, j) => ~req[r].reply.success
        /\ Returned(r, "control_device", {"GetState", "GetTrackInfo"}) =>
              \A j \in 1..Len(req[r].trace) :
                  RefusedAt(r, j) => ~req[r].reply.success
        /\ (Returned(r, "control_device", PlaybackActions) /\ Len(req[r].trace) >= 2) =>
              /\ RefusedAt(r, 2) =>
                    /\ req[r].result.kind = "absent"
                    /\ Len(req[r].trace) = 2
                    /\ ~req[r].reply.success
              /\ \A j \in 3..Len(req[r].trace) :
                    RefusedAt(r, j) /\ req[r].trace[j].action = "GetTransportInfo" =>
                        req[r].result.state = None

\* C17, what the code does: the same, except that set_volume and set_mute
\* look at the status alone: a SetVolume or SetMute answered with status
\* 200 and a fault in the body counts as done.
C17_RefusedAsCoded ==
    \A r \in Slots :
        /\ Returned(r, "control_volume", {"get", "mute", "unmute", "set", "up", "down"}) =>
              \A j \in 1..Len(req[r].trace) :
                  RefusedAt(r, j) =>
                      IF req[r].trace[j].action = "GetVolume"
                      THEN /\ req[r].reply.volume = None
                           /\ req[r].action # "set" => ~req[r].reply.success
                      ELSE req[r].reply.success <=> req[r].trace[j].class = "fault200"
        /\ (Returned(r, "control_group_volume", {"up", "down"}) /\ req[r].members # << >>) =>
              \A j \in 3..Len(req[r].trace) :
                  RefusedAt(r, j) =>
                      (ListedAt(r, j) <=>
                          /\ req[r].trace[j].action = "SetVolume"
                          /\ req[r].trace[j].class = "fault200")
        /\ Returned(r, "control_group_volume", GroupRequests) =>
              \A j \in 1..Min2(2, Len(req[r].trace)) :
                  RefusedAt(r, j) => ~req[r].reply.success
        /\ Returned(r, "control_device", {"GetState", "GetTrackInfo"}) =>
              \A j \in 1..Len(req[r].trace) :
                  RefusedAt(r, j) => ~req[r].reply.success
        /\ (Returned(r, "control_device", PlaybackActions) /\ Len(req[r].trace) >= 2) =>
              /\ RefusedAt(r, 2) =>
                    /\ req[r].result.kind = "absent"
                    /\ Len(req[r].trace) = 2
                    /\ ~req[r].reply.success
              /\ \A j \in 3..Len(req[r].trace) :
                    RefusedAt(r, j) /\ req[r].trace[j].action = "GetTransportInfo" =>
                        req[r].result.state = None

\* a "mute" request whose SetMute the device refused with a fault and
\* status 200: the device is not muted, and the request succeeded
C17_Witness ==
    \E r \in Slots :
        /\ Returned(r, "control_volume", {"mute"})
        /\ Len(req[r].trace) = 1
        /\ req[r].trace[1].action = "SetMute"
        /\ req[r].trace[1].class = "fault200"
        /\ ~devMute[req[r].ip]
        /\ req[r].reply.success

\* a playback command refused with a fault and status 200: no result
C17_WitnessPlaybackFault ==
    \E r \in Slots :
        /\ Returned(r, "control_device", PlaybackActions)
        /\ Len(req[r].trace) = 2
        /\ req[r].trace[2].class = "fault200"
        /\ req[r].result.kind = "absent"

\* a SetVolume refused with status 404 and no fault: the request fails
C17_WitnessStatusAlone ==
    \E r \in Slots :
        /\ Returned(r, "control_volume", {"set"})
        /\ Len(req[r].trace) = 1
        /\ req[r].trace[1].class = "s404"
        /\ ~req[r].reply.success

----------------------------------------------------------------------------
(* The reach of a group volume operation.                                  *)

\* the hosts of the visible members of the group of the zone state that
\* holds ip (None: a member without a Location)
TargetHosts(zone_state, ip) ==
    IF zone_state = None THEN {}
    ELSE {hostname(ExpectedMembers(zone_state, ip)[k].location) :
             k \in 1..Len(ExpectedMembers(zone_state, ip))}

\* the hosts SetVolume was sent to by the handler rq
SetHosts(rq) ==
    {rq.trace[j].ip : j \in {i \in 1..Len(rq.trace) : rq.trace[i].action = "SetVolume"}}

\* C18: a group volume operation for ip sends SetVolume to visible members
\* of the group that holds ip and to no other device, and no step of it
\* changes the volume of an invisible member or of a device outside that
\* group.
C18_OnlyVisibleMembers ==
    [][\A r \in Slots :
          req'[r].handler = "control_group_volume" =>
              /\ SetHosts(req'[r]) \subseteq TargetHosts(req'[r].zone_state, req'[r].ip)
              /\ \A h \in Hosts :
                    Some(h) \notin TargetHosts(req'[r].zone_state, req'[r].ip) =>
                        devVol'[h] = devVol[h]]_vars

\* a group "up" for a, whose group has the visible members a and b and the
\* invisible member c: a and b were set, c was sent nothing
C18_Witness ==
    \E r \in Slots :
        /\ Returned(r, "control_group_volume", {"up"})
        /\ req[r].zone_state = ZoneStateText("T1")
        /\ SetHosts(req[r]) = {Some("a"), Some("b")}
        /\ Len(req[r].reply.results) = 2
        /\ \A j \in 1..Len(req[r].trace) : req[r].trace[j].ip # Some("c")

\* a group "mean" for b, alone in its group: a, in another group, was sent
\* nothing
C18_WitnessOtherGroup ==
    \E r \in Slots :
        /\ Returned(r, "control_group_volume", {"mean"})
        /\ req[r].ip = "b"
        /\ req[r].zone_state = ZoneStateText("T2")
        /\ SetHosts(req[r]) = {Some("b")}
        /\ \A j \in 1..Len(req[r].trace) : req[r].trace[j].ip # Some("a")

----------------------------------------------------------------------------
(* Track information.                                                      *)

\* the track texts of the three documents of a device's queue, written out:
\* title, creator and album that have text, " - " between them; the second
\* document has a creator element without text, the third no part with text
ExpectedTrack(n) ==
    CASE n = 1 -> Some(<<"Song", " - ", "Band", " - ", "Album">>)
      [] n = 2 -> Some(<<"Radio", " - ", "Live">>)
      [] OTHER -> None

\* what the handler in slot r got from get_track_info
TrackGot(r) ==
    IF req[r].action \in {"Next", "Previous"} THEN req[r].result.track
    ELSE req[r].reply.track

\* C19: get_track_info returns the texts of title, creator and album of
\* the metadata document, those that are there and not empty, in this
\* order, joined by " - "; it returns None when the response has no
\* metadata, when the metadata does not parse, and when no part has text.
C19_TrackInfo ==
    \A r \in Slots :
        Returned(r, "control_device", DeviceRequests) =>
            \A j \in 1..Len(req[r].trace) :
                req[r].trace[j].action = "GetPositionInfo" =>
                    /\ TrackGot(r) =
                          IF req[r].trace[j].class = "ok"
                          THEN ExpectedTrack(req[r].trace[j].track)
                          ELSE None
                    /\ req[r].action = "GetTrackInfo" =>
                          (req[r].reply.success <=> TrackGot(r) # None)

\* Next to the second track, whose creator element has no text: the title
\* and the album, joined
C19_Witness ==
    \E r \in Slots :
        /\ Returned(r, "control_device", {"Next"})
        /\ Len(req[r].trace) = 4
        /\ req[r].trace[3].action = "GetPositionInfo"
        /\ req[r].trace[3].class = "ok"
        /\ req[r].trace[3].track = 2
        /\ TrackGot(r) = Some(<<"Radio", " - ", "Live">>)

\* Previous to the third track, none of whose parts has text: None
C19_WitnessNoParts ==
    \E r \in Slots :
        /\ Returned(r, "control_device", {"Previous"})
        /\ Len(req[r].trace) = 4
        /\ req[r].trace[3].class = "ok"
        /\ req[r].trace[3].track = 3
        /\ TrackGot(r) = None

\* GetTrackInfo answered with a TrackMetaData that is no document, or with
\* none: the request fails
C19_WitnessUnparsed ==
    \E r \in Slots :
        /\ Returned(r, "control_device", {"GetTrackInfo"})
        /\ Len(req[r].trace) = 1
        /\ req[r].trace[1].class = "badbody"
        /\ ~req[r].reply.success

\* GetTrackInfo at the first track: all three parts
C19_WitnessAllParts ==
    \E r \in Slots :
        /\ Returned(r, "control_device", {"GetTrackInfo"})
        /\ req[r].reply.success
        /\ req[r].reply.track = Some(<<"Song", " - ", "Band", " - ", "Album">>)

----------------------------------------------------------------------------
(* The lookups of a result field.                                          *)

\* a get_* function was called by itself in slot r
LookedUp(r) == req[r].handler = "lookup" /\ req[r].pc = "done"

\* the shapes of a response in which a lookup finds an element of the
\* result's name: the exact-namespace path, the wildcard-namespace name,
\* the bare local name
ExactFinds(shape) ==
    shape \in {"ok_exact", "ok_exact_decoy", "ok_empty", "ok_garbage", "ok_high", "ok_low"}
WildcardFinds(shape) ==
    ExactFinds(shape) \/ shape \in {"ok_foreign", "ok_nons", "ok_foreign_decoy"}
BareFinds(shape) ==
    ExactFinds(shape) \/ shape \in {"ok_nons", "ok_foreign_decoy"}

\* the shapes in which the element found by the first lookup that finds
\* one carries the device's value
FirstFoundIsResult(shape) ==
    shape \in {"ok_exact", "ok_foreign", "ok_nons", "ok_exact_decoy", "ok_foreign_decoy"}

\* what the device in slot r's call holds, as the function returns it
DeviceValue(r) ==
    CASE req[r].action = "get_volume" -> Some(devVol[req[r].ip])
      [] req[r].action = "get_mute" -> Some(devMute[req[r].ip])
      [] req[r].action = "get_transport_info" -> Some(<<devState[req[r].ip]>>)
      [] OTHER -> ExpectedTrack(devTrack[req[r].ip])

\* C20, as stated: the value comes from the element found by the first of
\* the exact, the wildcard and the bare lookup that finds one, and the
\* function returns None only when none of the three finds an element.
C20_AbsentOnlyIfNotFound ==
    \A r \in Slots :
        LookedUp(r) =>
            /\ FirstFoundIsResult(req[r].parsed.shape) =>
                  req[r].parsed.value = DeviceValue(r)
            /\ req[r].parsed.value = None =>
                  ~(\/ ExactFinds(req[r].parsed.shape)
                    \/ WildcardFinds(req[r].parsed.shape)
                    \/ BareFinds(req[r].parsed.shape))

\* C20: get_volume, get_mute, get_transport_info and get_track_info take
\* the result from the element found by the first of the exact, the
\* wildcard and the bare lookup that finds one: an element a later lookup
\* would find instead is not used.  When none of the three finds an
\* element the function returns None; it also returns None when the element
\* found has no text (get_mute: False), when get_volume's is no integer,
\* and when get_track_info's is no document or one without parts.
C20_LookupOrder ==
    \A r \in Slots :
        LookedUp(r) =>
            LET shape == req[r].parsed.shape
                value == req[r].parsed.value
                f == req[r].action
            IN  /\ FirstFoundIsResult(shape) => value = DeviceValue(r)
                /\ ~(ExactFinds(shape) \/ WildcardFinds(shape) \/ BareFinds(shape)) =>
                      value = None
                /\ shape = "ok_empty" =>
                      value = IF f = "get_mute" THEN Some(FALSE) ELSE None
                /\ shape = "ok_garbage" =>
                      value = CASE f = "get_mute" -> Some(FALSE)
                                [] f = "get_transport_info" -> Some(<<"x">>)
                                [] OTHER -> None
                /\ shape = "ok_high" => value = Some(150)
                /\ shape = "ok_low" => value = Some(-3)

\* get_volume of a response with a decoy in a namespace ahead of the
\* result element at the exact path: the device's volume
C20_Witness ==
    \E r \in Slots :
        /\ LookedUp(r)
        /\ req[r].action = "get_volume"
        /\ req[r].parsed.shape = "ok_exact_decoy"
        /\ req[r].parsed.value = Some(devVol[req[r].ip])
        /\ req[r].parsed.value # Some(7)

\* get_transport_info of a response with the result element in a
\* namespace and a decoy in none after it: the device's state
C20_WitnessWildcard ==
    \E r \in Slots :
        /\ LookedUp(r)
        /\ req[r].action = "get_transport_info"
        /\ req[r].parsed.shape = "ok_foreign_decoy"
        /\ req[r].parsed.value = Some(<<"PLAYING">>)

\* get_volume of a response whose result element has no text: None, with
\* the element found by the exact path
C20_WitnessFoundButAbsent ==
    \E r \in Slots :
        /\ LookedUp(r)
        /\ req[r].action = "get_volume"
        /\ req[r].parsed.shape = "ok_empty"
        /\ req[r].parsed.value = None

----------------------------------------------------------------------------
(* The groups of the topology discover_sonos_topology returns.             *)

\* discover_sonos_topology, called in slot r, has returned a list made with
\* a topology document that parsed
TopologyBuilt(r) ==
    /\ Discovered(r)
    /\ Topology(req[r].zone_state).wf

\* the member element's Invisible attribute is absent or "0", and its
\* Location has a host
ShownWithHost(m) ==
    /\ m.invisible \in {None, Some("0")}
    /\ hostname(m.location) # None

\* the GetVolume exchanges of the run, in the order they were made
VolumeFetches(r) ==
    SelectSeq(req[r].trace, LAMBDA e : e.action = "GetVolume")

\* C21: in a topology discover_sonos_topology returns, the members list of
\* every group holds exactly the group's member elements that are visible
\* (Invisible absent or "0") and have a host, in document order, each once
\* and with an integer volume; the GetVolume requests of the run are those
\* for these members, one each, so none is sent for an invisible member.
C21_VisibleMembersListed ==
    \A r \in Slots :
        TopologyBuilt(r) =>
            LET groups == Topology(req[r].zone_state).groups
                shown == SelectSeq(AllMembers(groups), ShownWithHost)
            IN  /\ Len(req[r].groups_info) = Len(groups)
                /\ \A g \in 1..Len(groups) :
                      LET want == SelectSeq(groups[g].members, ShownWithHost)
                          got == req[r].groups_info[g].members
                      IN  /\ req[r].groups_info[g].id = groups[g].id
                          /\ Len(got) = Len(want)
                          /\ \A k \in 1..Len(want) :
                                /\ got[k].uuid = want[k].uuid
                                /\ got[k].location = want[k].location
                                /\ got[k].volume \in Int
                /\ Len(VolumeFetches(r)) = Len(shown)
                /\ \A k \in 1..Len(shown) :
                      VolumeFetches(r)[k].ip = hostname(shown[k].location)

\* c is announced and described, and is an invisible member of the one
\* group: the group lists a and b, and no GetVolume went to c
C21_Witness ==
    \E r \in Slots :
        /\ TopologyBuilt(r)
        /\ req[r].zone_state = <<"T1">>
        /\ CountAt(r, LocC) = 1
        /\ Len(req[r].groups_info[1].members) = 2
        /\ \A k \in 1..Len(VolumeFetches(r)) : VolumeFetches(r)[k].ip # Some("c")
        /\ Len(VolumeFetches(r)) = 2

\* a visible member without a Location is in no members list
C21_WitnessNoHost ==
    \E r \in Slots :
        /\ TopologyBuilt(r)
        /\ req[r].zone_state = <<"T3">>
        /\ Len(req[r].groups_info[1].members) = 1
        /\ Len(req[r].groups_info[2].members) = 2

\* the values of the Location attributes of the group's member elements
MemberLocations(group) ==
    {group.members[k].location : k \in 1..Len(group.members)}

\* how many times the device's groups list holds the group with the id
TimesAttached(device, id) ==
    Cardinality({j \in 1..Len(device.groups) : device.groups[j] = id})

\* C22: after a topology document was parsed, the groups list of every
\* returned device holds group G once when the device's location is the
\* Location of a member element of G, visible or not, and not at all when
\* it is not; it holds nothing but groups of the document, so the list of
\* a device that is a member of no group is empty.
C22_GroupsAttached ==
    \A r \in Slots :
        TopologyBuilt(r) =>
            LET groups == Topology(req[r].zone_state).groups
            IN  \A n \in 1..Len(req[r].devices) :
                  LET device == req[r].devices[n]
                  IN  /\ \A g \in 1..Len(groups) :
                            TimesAttached(device, groups[g].id) =
                                IF Some(device.location) \in MemberLocations(groups[g])
                                THEN 1 ELSE 0
                      /\ \A j \in 1..Len(device.groups) :
                            \E g \in 1..Len(groups) : device.groups[j] = groups[g].id
                      /\ (\A g \in 1..Len(groups) :
                             Some(device.location) \notin MemberLocations(groups[g]))
                            => device.groups = << >>

\* c's location is carried by a member of each of two groups: the device
\* has both groups, each once
C22_Witness ==
    \E r \in Slots :
        /\ TopologyBuilt(r)
        /\ req[r].zone_state = <<"T5">>
        /\ \E n \in 1..Len(req[r].devices) :
              /\ req[r].devices[n].location = LocC
              /\ req[r].devices[n].groups = <<"G1", "G2">>

\* c was announced and is a member of no group of the document
C22_WitnessNoGroup ==
    \E r \in Slots :
        /\ TopologyBuilt(r)
        /\ req[r].zone_state = <<"T2">>
        /\ \E n \in 1..Len(req[r].devices) :
              /\ req[r].devices[n].location = LocC
              /\ req[r].devices[n].groups = << >>
        /\ \E n \in 1..Len(req[r].devices) : req[r].devices[n].groups # << >>

\* c is an invisible member of the group and has the group attached
C22_WitnessInvisible ==
    \E r \in Slots :
        /\ TopologyBuilt(r)
        /\ req[r].zone_state = <<"T1">>
        /\ \E n \in 1..Len(req[r].devices) :
              /\ req[r].devices[n].location = LocC
              /\ req[r].devices[n].groups = <<"G1">>

\* what a GetVolume exchange contributes: the integer it carried, 0 when it
\* failed
FetchValue(e) == IF GaveValue(e) THEN e.val ELSE 0

\* the member records of all groups, in the order of the groups
Recorded(r) == AllMembers(req[r].groups_info)

\* the fetches, by their number, of the members at the device's location
FetchesAt(r, device) ==
    LET groups == Topology(req[r].zone_state).groups
        shown == SelectSeq(AllMembers(groups), ShownWithHost)
    IN  {k \in 1..Len(VolumeFetches(r)) : shown[k].location = Some(device.location)}

DeviceAt(r, location) ==
    req[r].devices[CHOOSE n \in 1..Len(req[r].devices) :
                       req[r].devices[n].location = location]

C23_WitnessMidway ==
    \E r \in Slots :
        /\ req[r].handler = "index"
        /\ req[r].pc = "ix_vol"
        /\ Len(VolumeFetches(r)) >= 1
        /\ ~GaveValue(Last(VolumeFetches(r)))
        /\ Last(Recorded(r)).volume = 0
        /\ \E n \in 1..Len(req[r].devices) :
              /\ Some(req[r].devices[n].location) = Last(Recorded(r)).location
              /\ req[r].devices[n].volume = Some(0)

\* two visible members are at c's location; the fetch for the first failed
\* and the one for the second did not: the first member has 0, the device
\* has the volume of the second
C23_WitnessTwin ==
    \E r \in Slots :
        /\ TopologyBuilt(r)
        /\ req[r].zone_state = <<"T5">>
        /\ Len(VolumeFetches(r)) = 4
        /\ ~GaveValue(VolumeFetches(r)[2])
        /\ Recorded(r)[2].volume = 0
        /\ CountAt(r, LocC) = 1
        /\ DeviceAt(r, LocC).volume = Some(devVol["c"])
        /\ devVol["c"] > 0

----------------------------------------------------------------------------
(* The fan-outs of the topology build, their tasks returning in any order. *)

\* how many of the exchanges before the j-th were of the action
CountBefore(r, j, action) ==
    Cardinality({i \in 1..(j - 1) : req[r].trace[i].action = action})

\* the Locations of the document's member elements that no SSDP response
\* carried
NewLocations(r) ==
    LET members == AllMembers(Topology(req[r].zone_state).groups)
    IN  {Val(members[k].location) :
            k \in {i \in 1..Len(members) : members[i].location # None}}
        \ Announced(r)

\* the document's visible members with a host, in document order
ShownMembers(r) ==
    SelectSeq(AllMembers(Topology(req[r].zone_state).groups), ShownWithHost)

\* the tasks of a fan-out returned in another order than they were made in
OutOfOrder(r, fanout) ==
    \E m, n \in 1..Len(req[r].finished) :
        /\ m < n
        /\ req[r].finished[m].fanout = fanout
        /\ req[r].finished[n].fanout = fanout
        /\ req[r].finished[m].k > req[r].finished[n].k

\* C24: whatever order the tasks of a fan-out return in, the description of
\* every SSDP location has been fetched before a GetZoneGroupState is sent,
\* the description of every member location SSDP did not carry has been
\* fetched as well before a GetVolume is sent, and when
\* discover_sonos_topology has returned every fetch it started is over: one
\* description per location and, with a parsed document, one GetVolume per
\* visible member with a host.
C24_FanOutsJoined ==
    \A r \in Slots :
        req[r].handler = "index" =>
            LET n == Len(req[r].trace) + 1
                parsed == req[r].zone_state # None /\ Topology(req[r].zone_state).wf
            IN  /\ \A j \in 1..Len(req[r].trace) :
                      /\ req[r].trace[j].action = "GetZoneGroupState" =>
                            CountBefore(r, j, "GET") = Cardinality(Announced(r))
                      /\ req[r].trace[j].action = "GetVolume" =>
                            CountBefore(r, j, "GET") =
                                Cardinality(Announced(r)) + Cardinality(NewLocations(r))
                /\ DiscoveryReturned(r) =>
                      /\ CountBefore(r, n, "GET") =
                            Cardinality(Announced(r))
                                + (IF parsed THEN Cardinality(NewLocations(r)) ELSE 0)
                      /\ CountBefore(r, n, "GetVolume") =
                            (IF parsed THEN Len(ShownMembers(r)) ELSE 0)

\* the descriptions of two announced devices came back in the other order,
\* a third location was found in the document, and the three volume
\* fetches came back out of order too; the build has returned
C24_Witness ==
    \E r \in Slots :
        /\ TopologyBuilt(r)
        /\ OutOfOrder(r, "info")
        /\ OutOfOrder(r, "volume")
        /\ Cardinality(Announced(r)) >= 2
        /\ Cardinality(NewLocations(r)) = 1
        /\ Len(ShownMembers(r)) = 3
        /\ CountBefore(r, Len(req[r].trace) + 1, "GetVolume") = 3

\* a later task of the first fan-out has returned, the one the function is
\* awaiting has not: no GetZoneGroupState has been sent
C24_WitnessWaiting ==
    \E r \in Slots :
        /\ req[r].pc = "ix_info"
        /\ req[r].i = 1
        /\ task_done(req[r].finished, "info", 2)
        /\ ~task_done(req[r].finished, "info", 1)
        /\ CountBefore(r, Len(req[r].trace) + 1, "GetZoneGroupState") = 0

\* the value the k-th task of the fan-out returned, whenever it did
ReturnedBy(r, fanout, k) ==
    LET n == CHOOSE j \in 1..Len(req[r].finished) :
                 req[r].finished[j].fanout = fanout /\ req[r].finished[j].k = k
    IN  req[r].finished[n].result

\* the description tasks of the run in the order they were made: one per
\* SSDP location, then one per new location of the document
DescriptionTasks(r) ==
    LET announced == ssdp_collect(req[r].datagrams, << >>, {}).devices
    IN  [k \in 1..Len(announced) |->
            [fanout |-> "info", k |-> k, location |-> announced[k].location]]
        \o [k \in 1..Len(req[r].new_devices) |->
               [fanout |-> "new", k |-> k, location |-> req[r].new_devices[k].location]]

\* the tasks that returned the description of a Sonos player
PlayerTasks(r) ==
    SelectSeq(DescriptionTasks(r),
              LAMBDA t : /\ ReturnedBy(r, t.fanout, t.k) # None
                         /\ StartsWithSonos(Val(ReturnedBy(r, t.fanout, t.k)).model))

\* the volume tasks, by their number, of the members at the location
VolumeTasksAt(r, location) ==
    {k \in 1..Len(ShownMembers(r)) : ShownMembers(r)[k].location = Some(location)}

\* the volume a task's result stands for
Resolved(volume) == IF volume # None THEN Val(volume) ELSE 0

\* C25: the list discover_sonos_topology returns is determined by what
\* each task returned, whatever order the tasks returned in: it holds one
\* device per task that returned a Sonos description, with the name and
\* room that task returned for the device's own location; the volume of a
\* device and of a member is the one the task made for it returned (0 for
\* none, and for a device no task was made for); the groups are those of
\* the document that hold the device's location; and the devices stand in
\* the order of their sort keys, or, when no zone state was obtained, in
\* the order their tasks were made in.
C25_OrderDoesNotMatter ==
    \A r \in Slots :
        DiscoveryReturned(r) =>
            LET kept == PlayerTasks(r)
                parsed == req[r].zone_state # None /\ Topology(req[r].zone_state).wf
                groups == Topology(req[r].zone_state).groups
            IN  /\ Len(req[r].devices) = Len(kept)
                /\ \A n \in 1..Len(kept) : CountAt(r, kept[n].location) = 1
                /\ IF req[r].zone_state = None
                   THEN \A n \in 1..Len(kept) :
                           req[r].devices[n].location = kept[n].location
                   ELSE InKeyOrder(req[r].devices)
                /\ \A n \in 1..Len(kept) :
                      LET device == DeviceAt(r, kept[n].location)
                          info == Val(ReturnedBy(r, kept[n].fanout, kept[n].k))
                          mine == VolumeTasksAt(r, device.location)
                      IN  /\ device.name = info.name
                          /\ device.room = info.room
                          /\ device.volume =
                                IF req[r].zone_state = None THEN None
                                ELSE IF ~parsed \/ mine = {} THEN Some(0)
                                ELSE LET last == CHOOSE k \in mine : \A j \in mine : j <= k
                                     IN  Some(Resolved(ReturnedBy(r, "volume", last)))
                          /\ \A g \in 1..Len(groups) :
                                TimesAttached(device, groups[g].id) =
                                    IF parsed /\ Some(device.location) \in MemberLocations(groups[g])
                                    THEN 1 ELSE 0
                /\ parsed =>
                      /\ Len(Recorded(r)) = Len(ShownMembers(r))
                      /\ \A k \in 1..Len(ShownMembers(r)) :
                            /\ Recorded(r)[k].uuid = ShownMembers(r)[k].uuid
                            /\ Recorded(r)[k].volume = Resolved(ReturnedBy(r, "volume", k))

\* the descriptions of a and b and the volumes of three members came back
\* out of order; the list has a, b and c, each with its own name and volume
C25_Witness ==
    \E r \in Slots :
        /\ TopologyBuilt(r)
        /\ OutOfOrder(r, "info")
        /\ OutOfOrder(r, "volume")
        /\ Len(req[r].devices) = 3
        /\ DeviceAt(r, LocA).name = "Kitchen One"
        /\ DeviceAt(r, LocB).name = "bath Five"
        /\ DeviceAt(r, LocC).name = "Roam"
        /\ DeviceAt(r, LocA).volume = Some(devVol["a"])
        /\ DeviceAt(r, LocB).volume = Some(devVol["b"])
        /\ DeviceAt(r, LocC).volume = Some(devVol["c"])

\* no zone state, the descriptions came back out of order: the devices are
\* listed in the order SSDP announced them
C25_WitnessNoZoneState ==
    \E r \in Slots :
        /\ WithoutZoneState(r)
        /\ OutOfOrder(r, "info")
        /\ Len(req[r].devices) >= 2

----------------------------------------------------------------------------
(* The exchanges of control_playback.                                      *)

\* the request in slot r is a playback command: control_device calls
\* control_playback
Playback(r) ==
    /\ req[r].handler = "control_device"
    /\ req[r].action \in PlaybackActions

\* the response to the command had status 200 and no fault marker
Accepted(e) == e.class \in {"ok", "malformed"}

\* C26: the exchanges of control_playback come in one order.  The first is
\* GetTransportInfo, and whatever it gives the command is next: the
\* function does not return before it.  After a command answered with
\* status 200 and no fault marker, Next/Previous sleep, then send
\* GetPositionInfo, then GetTransportInfo, and return a pair; Play/Pause
\* send GetTransportInfo alone and return.  After any other answer, or
\* none, nothing more is sent, there was no sleep, and the result is absent.
C26_PlaybackOrder ==
    \A r \in Slots :
        Playback(r) =>
            LET t == req[r].trace
                n == Len(req[r].trace)
                back == req[r].pc \in {"cd_track", "done"}
            IN  /\ n >= 1 => t[1].action = "GetTransportInfo"
                /\ n >= 2 => t[2].action = req[r].action
                /\ n < 2 => ~back /\ ~req[r].slept
                /\ n = 1 => req[r].pc = "cp_cmd"
                /\ (n >= 2 /\ ~Accepted(t[2])) =>
                      /\ n = 2
                      /\ back
                      /\ ~req[r].slept
                      /\ req[r].result = NoResult
                /\ (n >= 2 /\ Accepted(t[2]) /\ req[r].action \in {"Next", "Previous"}) =>
                      /\ n = 2 => ~back
                      /\ n >= 3 => req[r].slept /\ t[3].action = "GetPositionInfo"
                      /\ n >= 4 => t[4].action = "GetTransportInfo"
                      /\ n <= 4
                      /\ back <=> n = 4
                      /\ back => req[r].result.kind = "pair"
                /\ (n >= 2 /\ Accepted(t[2]) /\ req[r].action \in {"Play", "Pause"}) =>
                      /\ ~req[r].slept
                      /\ n = 2 => ~back
                      /\ n >= 3 => t[3].action = "GetTransportInfo" /\ back
                      /\ back => req[r].result.kind \in {"single", "absent"}
                      /\ n >= 4 => /\ n = 4
                                   /\ t[4].action = "GetPositionInfo"
                                   /\ req[r].pc = "done"

\* Next: the first read failed, the command was sent and accepted, then the
\* sleep, GetPositionInfo and GetTransportInfo
C26_Witness ==
    \E r \in Slots :
        /\ Playback(r)
        /\ req[r].action = "Next"
        /\ req[r].pc = "done"
        /\ Len(req[r].trace) = 4
        /\ ~GaveValue(req[r].trace[1])
        /\ Accepted(req[r].trace[2])
        /\ req[r].slept
        /\ req[r].reply.success

\* Pause, accepted: GetTransportInfo, Pause, GetTransportInfo, no sleep
C26_WitnessPause ==
    \E r \in Slots :
        /\ Playback(r)
        /\ req[r].action = "Pause"
        /\ req[r].pc = "done"
        /\ Len(req[r].trace) = 3
        /\ Accepted(req[r].trace[2])
        /\ req[r].reply.success

\* Previous answered with status 500: two exchanges, no result
C26_WitnessRefused ==
    \E r \in Slots :
        /\ Playback(r)
        /\ req[r].action = "Previous"
        /\ req[r].pc = "done"
        /\ Len(req[r].trace) = 2
        /\ req[r].trace[2].class = "s500"
        /\ req[r].result = NoResult
        /\ ~req[r].reply.success

\* the sleep is on: the command was accepted, GetPositionInfo is not sent
C26_WitnessSleeping ==
    \E r \in Slots :
        /\ Playback(r)
        /\ req[r].pc = "cp_sleep"
        /\ Len(req[r].trace) = 2
        /\ ~req[r].slept

----------------------------------------------------------------------------
(* The zone-state queries of the topology build.                           *)

\* the places in the trace of the GetZoneGroupState exchanges
ZoneQueries(rq) ==
    {j \in 1..Len(rq.trace) : rq.trace[j].action = "GetZoneGroupState"}

\* the in-scope devices: those SSDP announced whose description is that of
\* a Sonos player, in the order they were announced in
InScope(r) ==
    SelectSeq(ssdp_collect(req[r].datagrams, << >>, {}).devices,
              LAMBDA d : Described(r, d.location))

\* C27 (1): at every point of a topology build the GetZoneGroupState
\* exchanges follow each other without another exchange between them, the
\* k-th of them goes to the k-th in-scope device, and none is sent once a
\* device has given a state.
C27_AskedInTurn ==
    \A r \in Slots :
        (req[r].handler = "index" /\ ZoneQueries(req[r]) # {}) =>
            LET first == CHOOSE j \in ZoneQueries(req[r]) :
                             \A i \in ZoneQueries(req[r]) : j <= i
                count == Cardinality(ZoneQueries(req[r]))
            IN  /\ ZoneQueries(req[r]) = first..(first + count - 1)
                /\ count <= Len(InScope(r))
                /\ \A k \in 1..count :
                      req[r].trace[first + k - 1].ip = InScope(r)[k].ip
                /\ (req[r].zone_state = None /\ req[r].pc = "ix_zone") =>
                      first + count - 1 = Len(req[r].trace)

\* C27 (2): when no device gave a state, every in-scope device was asked
\* and the build returns the in-scope devices, in their order, each with an
\* empty groups list; no description was fetched beyond those of the SSDP
\* locations, and no volume.
C27_NoneGaveState ==
    \A r \in Slots :
        WithoutZoneState(r) =>
            /\ Cardinality(ZoneQueries(req[r])) = Len(InScope(r))
            /\ Len(req[r].devices) = Len(InScope(r))
            /\ \A n \in 1..Len(req[r].devices) :
                  /\ req[r].devices[n].location = InScope(r)[n].location
                  /\ req[r].devices[n].groups = << >>
            /\ CountBefore(r, Len(req[r].trace) + 1, "GET") = Cardinality(Announced(r))
            /\ CountBefore(r, Len(req[r].trace) + 1, "GetVolume") = 0

\* C27: the in-scope devices are asked for the zone state in list order,
\* one after another; a step sends a GetZoneGroupState only while no state
\* was obtained; and when none was, the in-scope devices are returned
\* without groups, no topology member's description and no volume fetched.
C27_ZoneStateInTurn ==
    /\ []C27_AskedInTurn
    /\ []C27_NoneGaveState
    /\ [][\A r \in Slots :
             ZoneQueries(req'[r]) \ ZoneQueries(req[r]) # {} =>
                 /\ req[r].zone_state = None
                 /\ req[r].pc = "ix_zone"]_vars

\* three in-scope devices, the first answered without a state, the second
\* gave one: the third was not asked
C27_Witness ==
    \E r \in Slots :
        /\ Discovered(r)
        /\ Len(InScope(r)) = 3
        /\ Cardinality(ZoneQueries(req[r])) = 2

\* two in-scope devices, neither gave a state: both were asked, and both
\* are returned without groups
C27_WitnessNone ==
    \E r \in Slots :
        /\ WithoutZoneState(r)
        /\ Len(InScope(r)) >= 2
        /\ Cardinality(ZoneQueries(req[r])) = Len(InScope(r))
        /\ \A n \in 1..Len(req[r].devices) : req[r].devices[n].groups = << >>

----------------------------------------------------------------------------
(* What discover_sonos_topology sends.                                     *)

\* the requests that read: the description GET and the two Get actions
ReadRequests == {"GET", "GetZoneGroupState", "GetVolume"}

\* C28: every exchange of a run of discover_sonos_topology is a
\* description GET, a GetZoneGroupState or a GetVolume, and no step of a
\* run changes a device's volume, mute flag, transport state or track.
C28_DiscoveryReadsOnly ==
    /\ [](\A r \in Slots :
             req[r].handler = "index" =>
                 \A j \in 1..Len(req[r].trace) :
                     req[r].trace[j].action \in ReadRequests)
    /\ [][(\E r \in Slots : req'[r].handler = "index") =>
              /\ devVol' = devVol
              /\ devMute' = devMute
              /\ devState' = devState
              /\ devTrack' = devTrack]_vars

\* a build that sent all three kinds of request, a GetVolume to each of
\* three members, and returned: the devices are as they were
C28_Witness ==
    \E r \in Slots :
        /\ TopologyBuilt(r)
        /\ \A a \in ReadRequests :
              \E j \in 1..Len(req[r].trace) : req[r].trace[j].action = a
        /\ \A h \in Hosts :
              \E j \in 1..Len(req[r].trace) :
                  /\ req[r].trace[j].action = "GetVolume"
                  /\ req[r].trace[j].ip = Some(h)
                  /\ CarriedOut(req[r].trace[j])
        /\ devVol \in {Volumes(20, 40, 60), Volumes(100, 0, 51)}
        /\ \A h \in Hosts : ~devMute[h] /\ devState[h] = "STOPPED"

----------------------------------------------------------------------------
(* What a playback command is reported as.                                 *)

\* control_playback, called for Play or Pause in slot r, has returned
PlayPauseBack(r) ==
    /\ Playback(r)
    /\ req[r].action \in {"Play", "Pause"}
    /\ req[r].pc \in {"cd_track", "done"}

\* control_playback returned None
Absent(result) ==
    \/ result.kind = "absent"
    \/ result.kind = "single" /\ result.state = None

\* C29: when the device answered a Play or Pause command with status 200
\* and no fault marker, control_playback does not return absent and the
\* request is not answered with success false.
C29_AcceptedNotFailed ==
    \A r \in Slots :
        (PlayPauseBack(r) /\ Accepted(req[r].trace[2])) =>
            /\ ~Absent(req[r].result)
            /\ req[r].pc = "done" => req[r].reply.success

\* C29, what the code does: control_playback returns absent for Play/Pause,
\* and the request is answered "Could not Play" ("Could not Pause"), when
\* the command was not accepted and also when it was and the read of the
\* new state that follows gave no state; in no other case.
C29_FailedAsCoded ==
    \A r \in Slots :
        PlayPauseBack(r) =>
            LET t == req[r].trace
                noState == /\ Len(t) >= 3
                           /\ None \in StateRead(t[3])
                           /\ req[r].result.state = None
            IN  /\ Absent(req[r].result) <=> (~Accepted(t[2]) \/ noState)
                /\ req[r].pc = "done" =>
                      (req[r].reply.success <=> ~Absent(req[r].result))
                /\ Absent(req[r].result) =>
                      /\ req[r].pc = "done"
                      /\ req[r].reply.error = CouldNot(req[r].action)

\* Play: the device accepted the command and left STOPPED, the read of the
\* new state was answered with status 500, and the request is answered
\* "Could not Play"
C29_Witness ==
    \E r \in Slots :
        /\ PlayPauseBack(r)
        /\ req[r].action = "Play"
        /\ Len(req[r].trace) = 3
        /\ CarriedOut(req[r].trace[2])
        /\ req[r].trace[3].class = "s500"
        /\ devState[req[r].ip] \in {"TRANSITIONING", "PLAYING"}
        /\ req[r].pc = "done"
        /\ ~req[r].reply.success
        /\ req[r].reply.error = "Could not Play"

\* Pause accepted and the new state read: success
C29_WitnessReported ==
    \E r \in Slots :
        /\ PlayPauseBack(r)
        /\ req[r].action = "Pause"
        /\ CarriedOut(req[r].trace[2])
        /\ req[r].pc = "done"
        /\ req[r].reply.success
        /\ req[r].reply.state = Some(StateText("PAUSED_PLAYBACK"))

----------------------------------------------------------------------------
(* Two volume adjustments at once.                                         *)

\* request r was answered and all its fetches and sets were carried out
AllCarriedOut(r) ==
    /\ req[r].pc = "done"
    /\ req[r].trace # << >>
    /\ \A k \in 1..Len(req[r].trace) : CarriedOut(req[r].trace[k])

\* the hosts request r has sent SetVolume to
Adjusted(r) ==
    {Val(req[r].trace[k].ip) : k \in {j \in 1..Len(req[r].trace) :
                                         req[r].trace[j].action = "SetVolume"}}

\* two requests for the same device or group, in the same direction, both
\* answered, every fetch and set of both carried out, on the same members
BothAdjusted ==
    /\ \A r \in RaceSlots : AllCarriedOut(r)
    /\ \A r \in RaceSlots : req[r].action \in {"up", "down"}
    /\ req[1].handler = req[2].handler
    /\ req[1].ip = req[2].ip
    /\ req[1].action = req[2].action
    /\ Adjusted(1) = Adjusted(2)
    /\ Adjusted(1) # {}

\* v after two steps: min(100, v + 4), max(0, v - 4)
TwoSteps(v, action) ==
    ClampVolume(v + (IF action = "up" THEN 2 * VolumeStep ELSE -(2 * VolumeStep)))

\* C30: when two 'up' (or two 'down') requests for the same device or
\* group have run side by side and every fetch and set succeeded, each
\* affected member is at min(100, v + 4) (or max(0, v - 4)) from its
\* starting volume v.
C30_NoLostAdjustment ==
    BothAdjusted =>
        \A h \in Adjusted(1) : devVol[h] = TwoSteps(RaceVolumes[h], req[1].action)

\* C30, what the code does: each affected member is one step or two steps
\* from its starting volume, and each request reports, per member, the
\* volume it computed from its own fetch.
C30_OneOrTwoSteps ==
    BothAdjusted =>
        \A h \in Adjusted(1) :
            devVol[h] \in {AdjustedVolume(RaceVolumes[h], req[1].action),
                           TwoSteps(RaceVolumes[h], req[1].action)}

\* the lost update: both 'up' requests for device a fetched 20 and set 22;
\* both are answered success with volume 22, and the device is at 22
C30_Witness ==
    /\ BothAdjusted
    /\ \A r \in RaceSlots :
          /\ req[r].handler = "control_volume"
          /\ req[r].ip = "a"
          /\ req[r].action = "up"
          /\ req[r].reply.success
          /\ req[r].reply.volume = Some(22)
    /\ devVol["a"] = 22

\* the same in a group: two 'down' requests, a member of the group one
\* step below its starting volume
C30_WitnessGroup ==
    /\ BothAdjusted
    /\ \A r \in RaceSlots :
          /\ req[r].handler = "control_group_volume"
          /\ req[r].action = "down"
          /\ req[r].reply.success
    /\ Cardinality(Adjusted(1)) >= 2
    /\ \E h \in Adjusted(1) : devVol[h] = RaceVolumes[h] - VolumeStep

\* one request after the other: two steps
C30_WitnessInTurn ==
    /\ BothAdjusted
    /\ req[1].handler = "control_volume"
    /\ req[1].ip = "a"
    /\ req[1].action = "up"
    /\ devVol["a"] = 24

====
